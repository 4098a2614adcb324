------------------------ MODULE JitterLinkProperties -----------------------
(* What the jitter buffer promises its player.                              *)
EXTENDS JitterLink

\* Timestamps stay in their range however often they wrap, no sub-window
\* counts more packets than its size, and no list of timings overflows.
TypeOK ==
  /\ packets \in [Slot -> {NoPacket} \union
                    [timestamp : Timestamp, span : Spans \union {Span}, arrival : Timestamp]]
  /\ {pointer_timestamp, next_stop, last_returned_timestamp, sender, heard} \subseteq Timestamp
  /\ buffered \in Int
  /\ interp_requested \in Nat
  /\ timeBuffers \in
       [1..MAX_BUFFERS -> [timing : Seq(Int), curr_count : 0..subwindow_size]]
  /\ \A b \in 1..MAX_BUFFERS : Len(timeBuffers[b].timing) <= MAX_TIMINGS
  /\ lost_count \in 0..(MAX_LOST + 1)
  /\ {steady, reset_state, auto_adjust} \subseteq BOOLEAN
  /\ wild \in 0..Wild
  /\ player \in {"receive", "get", "tick", "adjusted"}

\* A packet that begins where playback stands, or later, is not counted as
\* late (jitter.c:391). It takes the clip of tick: where a packet began
\* before the point of playback less is left of it than the player asked for,
\* buffered goes below zero, and the deadline would lie ahead of playback.
\* Between update_delay and the tick it may: the deadline is then that of a
\* pointer since moved back.
NeededIsNotLate == player # "adjusted" => ~Late(pointer_timestamp)

\* The Fill test of testjitter.c, for every timestamp to start from: over a
\* network that was always steady, every get returns the packet just put.
FillTest ==
  (steady /\ wild = Wild /\ player = "tick") =>
    returned = [status |-> "OK", timestamp |-> Plus(sender, -Span), span |-> Span]

\* The step from a state to the next is a call of jitter_buffer_get.
Gets == player = "get" /\ player' = "tick"

\* Playback never goes back: update_delay moves the pointer back only for as
\* long as the next get takes to interpolate. Only a new sync may go back.
PlaybackGoesForward ==
  [][Gets /\ ~reset_state => GE32(pointer_timestamp', heard)]_vars

\* However wild the network was and wherever the sender has got to, once it
\* is steady the buffer finds its way back (by growing, or by starting anew):
\* then every get returns a packet, and nothing less than was asked for.
Recovers ==
  steady ~> [](player = "tick" => returned.status = "OK" /\ buffered >= 0)

----------------------------------------------------------------------------

\* "Make sure this packet is used to resync" (jitter_buffer_put): the get
\* that synchronises returns a packet.
ResyncUsesPacket ==
  [][Gets /\ reset_state /\ Occupied(packets) # {} => returned'.status = "OK"]_vars

----------------------------------------------------------------------------
(* The inductive invariants.                                                *)

\* What PlaybackGoesForward needs: an adjustment moves the pointer ahead, or
\* back by what the next get interpolates, and a get takes it up.
OnTime ==
  ~reset_state =>
    /\ IF interp_requested = 0 THEN TSUB(pointer_timestamp, heard) \in 0..TIMING_LIMIT
       ELSE Plus(pointer_timestamp, interp_requested) = heard
    /\ player = "tick" => interp_requested = 0 /\ pointer_timestamp = heard

ForwardInv == OnTime /\ (player = "adjusted" => ~auto_adjust)

\* What FillTest needs: without wild packets no timing is off, no delay is
\* adjusted, and the buffer, once it heard of the sender, follows it.
LastSent == Plus(sender, -Span)

Holds(i) ==
  /\ packets[i].timestamp = LastSent /\ packets[i].span = Span
  /\ packets[i].arrival \in {0, LastSent}

FillInv ==
  wild = Wild =>
    /\ interp_requested = 0 /\ lost_count = 0
    /\ \A b \in 1..MAX_BUFFERS :
         \A i \in DOMAIN timeBuffers[b].timing : timeBuffers[b].timing[i] = 0
    /\ ~steady => reset_state /\ player # "receive"
    /\ steady => player # "adjusted"
    /\ steady /\ player = "get" =>
         /\ \E i \in Slot : Occupied(packets) = {i} /\ Holds(i)
         /\ ~reset_state => pointer_timestamp = LastSent
    /\ ~(steady /\ player = "get") => Occupied(packets) = {}
    /\ steady /\ player = "receive" /\ ~reset_state =>
         pointer_timestamp = sender /\ next_stop = sender
    /\ steady /\ player = "tick" =>
         ~reset_state /\ pointer_timestamp = sender /\ buffered = 0 /\ FillTest
============================================================================
