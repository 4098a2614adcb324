---------------------------- MODULE RecordingLog ----------------------------
(* What the recorder promises of the file it leaves, whatever the interleaving
   of clicks, threads, failures and process deaths: one run at a time writes it,
   a run may start it afresh only before its own first frame, and nobody else
   ever takes a frame away.  AudioRecorder is shown to implement this. *)
EXTENDS Naturals, Sequences

CONSTANTS Thread, Nobody, Torn

VARIABLES
    active,   \* the run that is writing, or Nobody
    over,     \* the threads whose run is over, or never came to be
    frames    \* the frames in the file, each named by the run that wrote it

logVars == <<active, over, frames>>

LogType ==
    /\ active \in Thread \cup {Nobody}
    /\ over \subseteq Thread
    /\ frames \in Seq(Thread \cup {Torn})

LogInit == active = Nobody /\ over = {} /\ frames = <<>>

Begin(t) ==
    /\ active = Nobody /\ t \notin over
    /\ active' = t
    /\ UNCHANGED <<over, frames>>

Truncate ==
    /\ active # Nobody /\ \A i \in DOMAIN frames : frames[i] # active
    /\ frames' = <<>>
    /\ UNCHANGED <<active, over>>

Write(x) ==
    /\ active # Nobody /\ x \in {active, Torn}
    /\ frames' = Append(frames, x)
    /\ UNCHANGED <<active, over>>

(* One run ends, or all there are when the process dies. *)
End(gone) ==
    /\ over' = over \cup gone
    /\ active' = IF active \in gone THEN Nobody ELSE active
    /\ UNCHANGED frames

LogNext ==
    \/ \E t \in Thread : Begin(t)
    \/ Truncate
    \/ \E x \in Thread \cup {Torn} : Write(x)
    \/ \E gone \in SUBSET Thread : End(gone)

LogSpec == LogInit /\ [][LogNext]_logVars

(* The frames of one run stand together: no other run's frame is between two of
   them. *)
Contiguous ==
    \A i, j, k \in DOMAIN frames :
        (i < j /\ j < k /\ frames[i] = frames[k] /\ frames[i] # Torn)
            => frames[j] \in {frames[i], Torn}
=============================================================================
