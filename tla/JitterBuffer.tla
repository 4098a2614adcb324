---------------------------- MODULE JitterBuffer ---------------------------
(* The adaptive jitter buffer of the Speex library: packets go in as they   *)
(* arrive, one comes out at each get, and the point of playback moves back  *)
(* and forth with what the times of arrival say about the network.          *)
(* Timestamps wrap around. What a packet carries is left out.               *)
EXTENDS Integers, SequencesExt

CONSTANTS
  WRAP,            \* timestamps are taken modulo this; 2^32
  SPEEX_JITTER_MAX_BUFFER_SIZE,
  MAX_TIMINGS, MAX_BUFFERS, TOP_DELAY,
  TIMING_LIMIT,    \* 32767
  MAX_LOST,        \* fetches that fail before a packet resynchronises; 20
  PENALTY,         \* what one more late frame costs at first; 4
  AUTO_TRADEOFF,   \* auto_tradeoff after a reset; 32000
  delay_step, concealment_size, buffer_margin, max_late_rate

ASSUME JitterAssumption ==
  /\ WRAP \in Nat \ {0} /\ WRAP % 2 = 0
  /\ {SPEEX_JITTER_MAX_BUFFER_SIZE, MAX_TIMINGS, MAX_BUFFERS, TOP_DELAY,
      delay_step, concealment_size, max_late_rate,
      TIMING_LIMIT} \subseteq Nat \ {0}
  /\ {MAX_LOST, PENALTY, AUTO_TRADEOFF, buffer_margin} \subseteq Nat
  /\ max_late_rate * MAX_BUFFERS <= 100 * TOP_DELAY   \* subwindow_size > 0

VARIABLES
  packets,            \* the slots, with their times of arrival
  pointer_timestamp, next_stop, last_returned_timestamp,
  buffered, reset_state, interp_requested, auto_adjust, auto_tradeoff,
  timeBuffers,        \* the newest sub-window first
  lost_count,         \* up to MAX_LOST + 1
  returned            \* what the last get or get_another returned

timeline == <<pointer_timestamp, next_stop, last_returned_timestamp>>
delays == <<interp_requested, auto_adjust, auto_tradeoff, timeBuffers>>
jitterVars == <<packets, timeline, buffered, reset_state, delays, lost_count, returned>>

Slot == 1..SPEEX_JITTER_MAX_BUFFER_SIZE
Timestamp == 0..(WRAP - 1)
NoPacket == [timestamp |-> -1, span |-> 0, arrival |-> 0]
Occupied(slots) == {i \in Slot : slots[i] # NoPacket}

----------------------------------------------------------------------------
(* Arithmetic of timestamps.                                                *)

Plus(a, b) == (a + b) % WRAP

\* TSUB: the difference as a signed number.
TSUB(a, b) == ((a - b + WRAP \div 2) % WRAP) - WRAP \div 2

LT32(a, b) == TSUB(a, b) < 0
GT32(a, b) == TSUB(a, b) > 0
LE32(a, b) == TSUB(a, b) <= 0

\* A slip to detect: the order of the numbers, not of the times.
GE32Unsigned(a, b) == a >= b

GE32(a, b) == TSUB(a, b) >= 0

ROUND_DOWN(x, step) == (x \div step) * step

\* What the conversion of an int to spx_int16_t leaves of it.
Int16(x) ==
  ((x + TIMING_LIMIT + 1) % (2 * (TIMING_LIMIT + 1))) - (TIMING_LIMIT + 1)

End(p) == Plus(p.timestamp, p.span)

\* What a loop over 1..n keeps of S: the first, or instead of it a later one
\* that is better (better[j][i] when j is better than i).
Keep(n, S, better) ==
  LET kept[j \in 0..n] ==
        IF j = 0 THEN 0
        ELSE LET i == kept[j - 1]
             IN  IF j \in S /\ (i = 0 \/ better[j][i]) THEN j ELSE i
  IN  kept[n]

KeepSlot(S, better) == Keep(SPEEX_JITTER_MAX_BUFFER_SIZE, S, better)

Earliest(slots, S) ==
  KeepSlot(S, [j \in S |-> [i \in S |-> LT32(slots[j].timestamp, slots[i].timestamp)]])

----------------------------------------------------------------------------
(* Times of arrival, from which the delay is computed.                      *)

window_size == (100 * TOP_DELAY) \div max_late_rate
subwindow_size == window_size \div MAX_BUFFERS

NoTimings == [timing |-> <<>>, curr_count |-> 0]
tb_init == [b \in 1..MAX_BUFFERS |-> NoTimings]

FirstOf(n, s) == SubSeq(s, 1, IF Len(s) < n THEN Len(s) ELSE n)

\* In a sorted list t goes before what is greater.
Inserted(s, t) ==
  [i \in 1..(Len(s) + 1) |->
     IF i <= Len(s) /\ s[i] <= t THEN s[i]
     ELSE IF i = 1 \/ s[i - 1] <= t THEN t
     ELSE s[i - 1]]

tb_add(tb, t) ==
  [timing |-> FirstOf(MAX_TIMINGS, Inserted(tb.timing, t)),
   curr_count |-> tb.curr_count + 1]

\* A slip to detect: a full sub-window is not rotated out.
update_timingsInPlace(bufs, timing) == [bufs EXCEPT ![1] = tb_add(@, timing)]

update_timings(bufs, timing) ==
  LET t == IF timing < -TIMING_LIMIT THEN -TIMING_LIMIT
           ELSE IF timing > TIMING_LIMIT THEN TIMING_LIMIT ELSE timing
      room == IF bufs[1].curr_count >= subwindow_size
              THEN <<NoTimings>> \o FirstOf(MAX_BUFFERS - 1, bufs)
              ELSE bufs
  IN  [room EXCEPT ![1] = tb_add(@, t)]

\* The timings are wider than the amount, which comes as an spx_int16_t.
shift_timings(bufs, amount) ==
  [b \in 1..MAX_BUFFERS |->
     [bufs[b] EXCEPT !.timing = [i \in DOMAIN @ |-> @[i] + Int16(amount)]]]

tot_count == FoldLeft(LAMBDA n, tb : n + tb.curr_count, 0, timeBuffers)

\* The timings in the sub-windows, each with its window and its place there.
At(e) == timeBuffers[e[1]].timing[e[2]]

\* A search that starts at the limit does not see what lies there.
Seen ==
  {e \in (1..MAX_BUFFERS) \X (1..MAX_TIMINGS) :
     e[2] <= Len(timeBuffers[e[1]].timing) /\ At(e) < TIMING_LIMIT}

\* Among equal timings those of the first sub-window come first.
Precedes(e, f) ==
  \/ At(e) < At(f)
  \/ At(e) = At(f) /\ (e[1] < f[1] \/ (e[1] = f[1] /\ e[2] < f[2]))

Rank(e) == Cardinality({f \in Seen : Precedes(f, e)})

\* The latest packets of all sub-windows, in order.
Latest ==
  LET n == Cardinality(Seen)
  IN  [k \in 1..(IF n < TOP_DELAY THEN n ELSE TOP_DELAY) |->
         At(CHOOSE e \in Seen : Rank(e) = k - 1)]

\* The delay that costs least: itself, and the frames that would be late.
\* latency_tradeoff keeps its default, 0.
BestDelay ==
  LET latest == Latest
      choices == 1..Len(latest)
      late_factor == (auto_tradeoff * window_size) \div tot_count
      delay == [i \in choices |-> ROUND_DOWN(latest[i], delay_step)]
      late(i) == (i - 1) + (IF \E j \in 1..(i - 1) : delay[j] >= 0 THEN PENALTY ELSE 0)
      cost == [i \in choices |-> late_factor * late(i) - delay[i]]
  IN  delay[Keep(Len(latest), choices, [j \in choices |-> [i \in choices |-> cost[j] < cost[i]]])]

\* compute_opt_delay; it also sets auto_tradeoff. The costs are compared in
\* full, but opt has 16 bits: a delay rounded down below -TIMING_LIMIT - 1
\* becomes a positive one.
compute_opt_delay ==
  IF Latest = <<>> THEN 0
  ELSE LET opt == Int16(BestDelay)
       IN  IF tot_count < TOP_DELAY /\ opt > 0 THEN 0 ELSE opt

NewTradeoff ==
  IF tot_count = 0 THEN auto_tradeoff
  ELSE IF Latest = <<>> THEN 1
  ELSE LET latest == Latest IN 1 + (Last(latest) - Head(latest)) \div TOP_DELAY

----------------------------------------------------------------------------
(* The operations.                                                          *)

JitterInit ==
  /\ packets = [i \in Slot |-> NoPacket]
  /\ pointer_timestamp = 0 /\ next_stop = 0 /\ last_returned_timestamp = 0
  /\ buffered = 0
  /\ reset_state = TRUE
  /\ interp_requested = 0
  /\ auto_adjust = TRUE
  /\ auto_tradeoff = AUTO_TRADEOFF
  /\ timeBuffers = tb_init
  /\ lost_count = 0
  /\ returned = [status |-> "MISSING", timestamp |-> 0, span |-> 0]

jitter_buffer_reset ==
  /\ packets' = [i \in Slot |-> NoPacket]
  /\ pointer_timestamp' = 0
  /\ next_stop' = 0
  /\ reset_state' = TRUE
  /\ lost_count' = 0
  /\ buffered' = 0
  /\ auto_tradeoff' = AUTO_TRADEOFF
  /\ timeBuffers' = tb_init
  /\ UNCHANGED <<last_returned_timestamp, interp_requested, auto_adjust, returned>>

\* Packets that were not played in time go; not before the first sync.
Cleaned ==
  [i \in Slot |->
     IF ~reset_state /\ packets[i] # NoPacket /\ LE32(End(packets[i]), pointer_timestamp)
     THEN NoPacket ELSE packets[i]]

\* A free slot, or that of the earliest packet.
SlotFor(slots) ==
  IF Occupied(slots) # Slot
  THEN CHOOSE i \in Slot \ Occupied(slots) : \A j \in Slot \ Occupied(slots) : i <= j
  ELSE Earliest(slots, Slot)

Late(timestamp) == ~reset_state /\ LT32(timestamp, next_stop)

\* A slip to detect: the buffer does not wait for a sync again.
PutResyncHalf(timestamp, span) ==
  /\ lost_count > MAX_LOST
  /\ packets' = [i \in Slot |-> NoPacket]
  /\ lost_count' = 0
  /\ UNCHANGED <<timeline, buffered, reset_state, delays, returned>>

\* After MAX_LOST failed fetches a packet starts everything anew.
PutResync(timestamp, span) ==
  /\ lost_count > MAX_LOST
  /\ packets' = [i \in Slot |-> IF i = 1
                  THEN [timestamp |-> timestamp, span |-> span, arrival |-> 0]
                  ELSE NoPacket]
  /\ pointer_timestamp' = 0
  /\ next_stop' = 0
  /\ reset_state' = TRUE
  /\ lost_count' = 0
  /\ buffered' = 0
  /\ auto_tradeoff' = AUTO_TRADEOFF
  /\ timeBuffers' = tb_init
  /\ UNCHANGED <<last_returned_timestamp, interp_requested, auto_adjust, returned>>

PutNormal(timestamp, span) ==
  /\ lost_count <= MAX_LOST
  /\ timeBuffers' = IF Late(timestamp)
                    THEN update_timings(timeBuffers, TSUB(timestamp, next_stop) - buffer_margin)
                    ELSE timeBuffers
  /\ packets' =
       IF reset_state \/ GE32(Plus(timestamp, span + delay_step), pointer_timestamp)
       THEN [Cleaned EXCEPT ![SlotFor(Cleaned)] =
               [timestamp |-> timestamp, span |-> span,
                arrival |-> IF reset_state \/ Late(timestamp) THEN 0 ELSE next_stop]]
       ELSE Cleaned
  /\ UNCHANGED <<timeline, buffered, reset_state, interp_requested, auto_adjust,
                 auto_tradeoff, lost_count, returned>>

jitter_buffer_put(timestamp, span) ==
  PutResync(timestamp, span) \/ PutNormal(timestamp, span)

----------------------------------------------------------------------------
(* jitter_buffer_get                                                        *)

\* Where playback stands; the first get after a reset begins at the oldest.
Start == IF reset_state THEN packets[Earliest(packets, Occupied(packets))].timestamp
         ELSE pointer_timestamp

\* The slots that fit best to what is to be played.
Fitting(desired_span) ==
  LET stop == Plus(Start, desired_span)
      began == {i \in Occupied(packets) : LE32(packets[i].timestamp, Start)}
      spanning == {i \in began : GE32(End(packets[i]), stop)}
      exact == {i \in spanning : packets[i].timestamp = Start}
      partial == {i \in began : GT32(End(packets[i]), Start)}
      begins == {i \in Occupied(packets) : /\ LT32(packets[i].timestamp, stop)
                                           /\ GE32(packets[i].timestamp, Start)}
      sooner == [j \in begins |-> [i \in begins |->
                   \/ LT32(packets[j].timestamp, packets[i].timestamp)
                   \/ /\ packets[j].timestamp = packets[i].timestamp
                      /\ packets[j].span > packets[i].span]]
      lowest(S) == CHOOSE i \in S : \A j \in S : i <= j
  IN  IF exact # {} THEN {lowest(exact)}
      ELSE IF spanning # {} THEN {lowest(spanning)}
      ELSE IF partial # {} THEN {lowest(partial)}
      ELSE IF begins # {} THEN {KeepSlot(begins, sooner)}
      ELSE {}

GetBeforeSync ==
  /\ reset_state /\ Occupied(packets) = {}
  /\ returned' = [status |-> "MISSING", timestamp |-> 0, span |-> interp_requested]
  /\ UNCHANGED <<packets, timeline, buffered, reset_state, delays, lost_count>>

\* The first lines of every other case.
Synced ==
  /\ ~reset_state \/ Occupied(packets) # {}
  /\ reset_state' = FALSE
  /\ next_stop' = IF reset_state THEN Start ELSE next_stop
  /\ UNCHANGED auto_adjust

\* A slip to detect: the pointer stays where update_delay moved it.
GetDeferredBehind(desired_span) ==
  /\ Synced
  /\ interp_requested # 0
  /\ returned' = [status |-> "INSERTION", timestamp |-> Start, span |-> interp_requested]
  /\ last_returned_timestamp' = Start
  /\ pointer_timestamp' = Start
  /\ interp_requested' = 0
  /\ buffered' = interp_requested - desired_span
  /\ UNCHANGED <<packets, auto_tradeoff, timeBuffers, lost_count>>

\* The interpolation that update_delay asked for.
GetDeferred(desired_span) ==
  /\ Synced
  /\ interp_requested # 0
  /\ returned' = [status |-> "INSERTION", timestamp |-> Start, span |-> interp_requested]
  /\ last_returned_timestamp' = Start
  /\ pointer_timestamp' = Plus(Start, interp_requested)
  /\ interp_requested' = 0
  /\ buffered' = interp_requested - desired_span
  /\ UNCHANGED <<packets, auto_tradeoff, timeBuffers, lost_count>>

GetPacket(desired_span) ==
  /\ Synced
  /\ interp_requested = 0
  /\ \E i \in Fitting(desired_span) :
       LET p == packets[i] IN
       /\ lost_count' = 0
       /\ timeBuffers' =
            IF p.arrival = 0 THEN timeBuffers
            ELSE update_timings(timeBuffers, TSUB(p.timestamp, p.arrival) - buffer_margin)
       /\ packets' = [packets EXCEPT ![i] = NoPacket]
       /\ returned' = [status |-> "OK", timestamp |-> p.timestamp, span |-> p.span]
       /\ last_returned_timestamp' = p.timestamp
       /\ pointer_timestamp' = End(p)
       /\ buffered' = p.span - desired_span + TSUB(p.timestamp, Start)
  /\ UNCHANGED <<interp_requested, auto_tradeoff>>

Lost(desired_span) ==
  /\ Synced
  /\ interp_requested = 0
  /\ Fitting(desired_span) = {}
  /\ lost_count' = IF lost_count > MAX_LOST THEN lost_count ELSE lost_count + 1
  /\ auto_tradeoff' = NewTradeoff
  /\ last_returned_timestamp' = Start
  /\ UNCHANGED <<packets, interp_requested>>

\* The buffer should be longer: playback waits.
GetInsertion(desired_span) ==
  /\ Lost(desired_span)
  /\ LET opt == compute_opt_delay IN
     /\ opt < 0
     /\ timeBuffers' = shift_timings(timeBuffers, -opt)
     /\ returned' = [status |-> "INSERTION", timestamp |-> Start, span |-> -opt]
     /\ buffered' = -opt - desired_span
  /\ pointer_timestamp' = Start

GetMissing(desired_span) ==
  /\ Lost(desired_span)
  /\ compute_opt_delay >= 0
  /\ LET span == ROUND_DOWN(desired_span, concealment_size) IN
     /\ returned' = [status |-> "MISSING", timestamp |-> Start, span |-> span]
     /\ pointer_timestamp' = Plus(Start, span)
  /\ buffered' = 0
  /\ UNCHANGED timeBuffers

jitter_buffer_get(desired_span) ==
  \/ GetBeforeSync
  \/ GetDeferred(desired_span)
  \/ GetPacket(desired_span)
  \/ GetInsertion(desired_span)
  \/ GetMissing(desired_span)

\* Another packet with the timestamp of the last.
jitter_buffer_get_another ==
  /\ LET same == {i \in Occupied(packets) :
                    packets[i].timestamp = last_returned_timestamp}
         p == CHOOSE i \in same : \A j \in same : i <= j
     IN  IF same = {}
         THEN /\ returned' = [status |-> "MISSING", timestamp |-> 0, span |-> 0]
              /\ UNCHANGED packets
         ELSE /\ returned' = [status |-> "OK", timestamp |-> packets[p].timestamp,
                              span |-> packets[p].span]
              /\ packets' = [packets EXCEPT ![p] = NoPacket]
  /\ UNCHANGED <<timeline, buffered, reset_state, delays, lost_count>>

----------------------------------------------------------------------------
(* Adjusting the delay.                                                     *)

\* By how much _jitter_buffer_update_delay moves the pointer.
Adjustment(adjust) == IF adjust THEN compute_opt_delay ELSE 0

update_delay(adjust, opt) ==
  /\ pointer_timestamp' = Plus(pointer_timestamp, opt)
  /\ auto_tradeoff' = IF adjust THEN NewTradeoff ELSE auto_tradeoff
  /\ timeBuffers' = IF opt # 0 THEN shift_timings(timeBuffers, -opt) ELSE timeBuffers
  /\ interp_requested' = IF opt < 0 THEN -opt ELSE interp_requested
  /\ UNCHANGED <<packets, last_returned_timestamp, reset_state, lost_count, returned>>

jitter_buffer_update_delay ==
  /\ auto_adjust' = FALSE
  /\ update_delay(TRUE, compute_opt_delay)
  /\ UNCHANGED <<next_stop, buffered>>

\* A slip to detect: what is owed is put off.
jitter_buffer_tickOwing ==
  /\ update_delay(auto_adjust, Adjustment(auto_adjust))
  /\ next_stop' = Plus(pointer_timestamp', -buffered)
  /\ buffered' = 0
  /\ UNCHANGED auto_adjust

jitter_buffer_tick ==
  /\ update_delay(auto_adjust, Adjustment(auto_adjust))
  /\ next_stop' = IF buffered >= 0
                  THEN Plus(pointer_timestamp', -buffered)
                  ELSE pointer_timestamp'
  /\ buffered' = 0
  /\ UNCHANGED auto_adjust

jitter_buffer_remaining_span(rem) ==
  /\ update_delay(auto_adjust, Adjustment(auto_adjust))
  /\ next_stop' = Plus(pointer_timestamp', -rem)
  /\ UNCHANGED <<auto_adjust, buffered>>
============================================================================
