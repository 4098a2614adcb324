----------------------- MODULE EchoPlaybackProperties ----------------------
(* What the playback buffer of the echo canceller promises.                 *)
EXTENDS EchoPlayback

\* The buffer never holds more than the frames it was allocated for.
TypeOK ==
  /\ play_buf \in Seq(0..Oldest) /\ Len(play_buf) <= PLAYBACK_DELAY + 1
  /\ play_buf_started \in BOOLEAN
  /\ screwed_up \in 0..(TOO_BAD - 1)
  /\ reference \in NoFrame..Oldest
  /\ call \in {"none", "capture", "playback", "reset"}
  /\ turn \in {"any", "capture", "play"}
  /\ wild \in BOOLEAN
  /\ calm \in 0..Oldest

\* The references never go back in time, whatever the application and the
\* canceller do: but for silence, none is older than the one before it.
NeverBack ==
  [][call' = "capture" /\ reference # NoFrame /\ reference' # Silence
       => reference' <= reference]_vars

\* "Internal playback buffer, which is delayed by two frames" (speex_echo.h):
\* with an application that always captures and plays in turn, the reference
\* is the frame that was played PLAYBACK_DELAY captures before, as soon as
\* the start, or a reset, is a few captures ago.
DelayedByTwo ==
  (~wild /\ turn = "play" /\ calm > PLAYBACK_DELAY) => reference = PLAYBACK_DELAY - 1

\* The longer the delay, the longer a buffer that ran empty takes to fill:
\* until then frames enter it twice.
Late == IF PLAYBACK_DELAY > 2 THEN PLAYBACK_DELAY - 2 ELSE 0

SettlingTime == PLAYBACK_DELAY + 1 + Late

\* However the application called before, a few captures after it is steady,
\* or after a reset, the delay is PLAYBACK_DELAY or one more, no capture finds
\* the buffer empty, and the delay never changes again.
DelaySettles ==
  [][turn = "capture" /\ turn' = "play" /\ calm > SettlingTime /\ calm' >= calm
       => /\ reference' \in {PLAYBACK_DELAY - 1, PLAYBACK_DELAY}
          /\ reference' = reference - 1]_vars

----------------------------------------------------------------------------

\* The inductive invariant: in the buffer no frame is followed by an older
\* one, and but for silence none is older than the last reference.
OrderInv ==
  /\ TypeOK
  /\ \A i, j \in 1..Len(play_buf) : i <= j => play_buf[i] >= play_buf[j]
  /\ reference # NoFrame =>
       \A i \in 1..Len(play_buf) : play_buf[i] = Silence \/ play_buf[i] <= reference

\* The newest n of the frames were played one after the other.
InTurn(frames, n) ==
  \A i \in 1..Len(frames) : Len(frames) - i < n => frames[i] = Len(frames) - i

AtLeast(a, b, n) == n >= a \/ n >= b

\* What DelaySettles needs: with a steady application the buffer fills up,
\* and from then on its new frames are in order.
SteadyInv ==
  /\ calm > 0 => play_buf_started /\ turn # "any"
  /\ turn = "capture" /\ calm > 0 =>
       /\ AtLeast(PLAYBACK_DELAY, calm + 1, Len(play_buf))
       /\ InTurn(play_buf, calm - Late)
  /\ turn = "play" => Len(play_buf) <= PLAYBACK_DELAY
  /\ turn = "play" /\ calm > 0 =>
       /\ AtLeast(PLAYBACK_DELAY - 1, calm - 1, Len(play_buf))
       /\ InTurn(play_buf, calm - 1 - Late)
  /\ calm > SettlingTime => reference = Len(play_buf)

\* What DelayedByTwo needs: without wild calls the buffer is never emptied,
\* and lacks at most the frame that a reset in a capture takes from it.
FreshInv ==
  ~wild =>
    /\ calm = 0 =>
         /\ ~play_buf_started
         /\ Len(play_buf) \in {PLAYBACK_DELAY - 1, PLAYBACK_DELAY}
    /\ calm > 0 => play_buf_started /\ turn # "any"
    /\ turn = "capture" /\ calm > 0 =>
         Len(play_buf) = PLAYBACK_DELAY /\ InTurn(play_buf, calm)
    /\ turn = "play" /\ calm > 0 =>
         /\ \/ Len(play_buf) = PLAYBACK_DELAY - 1
            \/ calm = 1 /\ Len(play_buf) = PLAYBACK_DELAY - 2
         /\ InTurn(play_buf, calm - 1)
    /\ turn = "play" /\ calm > PLAYBACK_DELAY => reference = PLAYBACK_DELAY - 1
============================================================================
