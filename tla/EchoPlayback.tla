---------------------------- MODULE EchoPlayback ---------------------------
(* The playback buffer of the Speex echo canceller. An application says     *)
(* which frames it plays (speex_echo_playback) and hands over those it      *)
(* records (speex_echo_capture); each of these is cancelled against the     *)
(* frame at the head of the buffer, its reference. A canceller that         *)
(* diverges resets itself in the middle of a capture. At first the          *)
(* application calls as it likes, from some moment on it is steady: it      *)
(* captures and plays in turn. Frames are whole, samples are left out.      *)
EXTENDS Integers, Sequences

CONSTANTS
  PLAYBACK_DELAY,  \* 2
  TOO_BAD,         \* the screwed_up at which the canceller resets; 50
  Oldest           \* bound on the age of a frame, and on calm

ASSUME EchoAssumption ==
  /\ PLAYBACK_DELAY \in Nat \ {0}
  /\ TOO_BAD \in Nat \ {0}
  /\ Oldest \in Nat /\ Oldest > 2 * PLAYBACK_DELAY

VARIABLES
  play_buf,         \* the frames up to play_buf_pos, as their ages: how many
                    \* frames were played after them
  play_buf_started,
  screwed_up,
  reference,        \* history: the age of the last reference
  call,             \* history: the last call
  turn,             \* "any", and of a steady application "capture" or "play"
  wild,             \* history: did the application ever call as it liked?
  calm              \* history: captures of a steady application since the
                    \* canceller was new or reset

echoVars == <<play_buf, play_buf_started, screwed_up, reference, call, calm>>
vars == <<echoVars, turn, wild>>

Silence == Oldest
NoFrame == -1
Capped(n) == IF n < Oldest THEN n ELSE Oldest
Calmer == IF turn = "any" THEN 0 ELSE Capped(calm + 1)
Silent == [i \in 1..PLAYBACK_DELAY |-> Silence]

Init ==
  /\ play_buf = Silent
  /\ play_buf_started = FALSE
  /\ screwed_up = 0
  /\ reference = Silence
  /\ call = "none"
  /\ turn \in {"any", "capture"}
  /\ wild = FALSE
  /\ calm = 0

speex_echo_state_reset ==
  /\ play_buf' = Silent
  /\ play_buf_started' = FALSE
  /\ screwed_up' = 0
  /\ call' = "reset"
  /\ calm' = 0
  /\ UNCHANGED reference

----------------------------------------------------------------------------
(* speex_echo_capture                                                       *)

\* What the sanity check at the end of a cancellation makes of screwed_up:
\* the signals are out of bounds, echo was added, or everything is fine.
Verdicts == {screwed_up + TOO_BAD, screwed_up + 1, 0}

\* A slip to detect: the frame stays at the head.
RestStays(frames) == frames

\* The buffer without the frame at its head.
Rest(frames) == Tail(frames)

\* The buffer is moved up after the cancellation, which may have reset it.
CaptureCancels ==
  /\ play_buf # <<>>
  /\ reference' = Head(play_buf)
  /\ \E verdict \in Verdicts :
       IF verdict >= TOO_BAD
       THEN /\ play_buf' = Rest(Silent)
            /\ play_buf_started' = FALSE
            /\ screwed_up' = 0
            /\ calm' = 0
       ELSE /\ play_buf' = Rest(play_buf)
            /\ play_buf_started' = TRUE
            /\ screwed_up' = verdict
            /\ calm' = Calmer

CaptureMisses ==
  /\ play_buf = <<>>
  /\ play_buf_started' = TRUE
  /\ reference' = NoFrame
  /\ calm' = Calmer
  /\ UNCHANGED <<play_buf, screwed_up>>

speex_echo_capture ==
  /\ CaptureCancels \/ CaptureMisses
  /\ call' = "capture"

----------------------------------------------------------------------------
(* speex_echo_playback                                                      *)

\* All frames grow older by one.
Aged(frames) == [i \in 1..Len(frames) |-> Capped(frames[i] + 1)]

PlaybackBeforeStart ==
  /\ ~play_buf_started
  /\ play_buf' = Aged(play_buf)

\* A slip to detect: a frame is taken however full the buffer is.
RoomAlways == TRUE

Room == Len(play_buf) <= PLAYBACK_DELAY

\* A slip to detect: the frame goes to the start of the buffer.
QueuedInFront(frames) == <<0>> \o frames

\* The frame goes to play_buf_pos.
Queued(frames) == Append(frames, 0)

\* A slip to detect: a buffer that ran empty is not filled up.
FilledNever(frames) == frames

\* A buffer that ran low gets the frame twice.
Filled(frames) ==
  IF Len(frames) <= PLAYBACK_DELAY - 1 THEN Queued(frames) ELSE frames

PlaybackQueues ==
  /\ play_buf_started
  /\ Room
  /\ play_buf' = Filled(Queued(Aged(play_buf)))

PlaybackDiscards ==
  /\ play_buf_started
  /\ ~Room
  /\ play_buf' = Aged(play_buf)

speex_echo_playback ==
  /\ PlaybackBeforeStart \/ PlaybackQueues \/ PlaybackDiscards
  /\ reference' = IF reference = NoFrame THEN NoFrame ELSE Capped(reference + 1)
  /\ call' = "playback"
  /\ UNCHANGED <<play_buf_started, screwed_up, calm>>

----------------------------------------------------------------------------

Capture ==
  /\ turn \in {"any", "capture"}
  /\ speex_echo_capture
  /\ turn' = IF turn = "any" THEN "any" ELSE "play"
  /\ wild' = (wild \/ turn = "any")

Playback ==
  /\ turn \in {"any", "play"}
  /\ speex_echo_playback
  /\ turn' = IF turn = "any" THEN "any" ELSE "capture"
  /\ wild' = (wild \/ turn = "any")

Reset ==
  /\ speex_echo_state_reset
  /\ UNCHANGED <<turn, wild>>

Settle ==
  /\ turn = "any"
  /\ turn' = "capture"
  /\ UNCHANGED <<echoVars, wild>>

Next == Capture \/ Playback \/ Reset \/ Settle

Spec == Init /\ [][Next]_vars
============================================================================
