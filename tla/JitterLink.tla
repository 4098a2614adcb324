----------------------------- MODULE JitterLink ----------------------------
(* The jitter buffer between a network and a player. At first packets come  *)
(* as they like: late, early, twice, out of order, or not at all. From some *)
(* moment on the sender and the network are steady and one new packet comes *)
(* for every packet that is played. The player gets, may ask for more of    *)
(* the same timestamp or adjust the delay, and then ticks.                  *)
EXTENDS JitterBuffer

CONSTANTS
  Wild,    \* bound on packets that come as they like
  Stamps,  \* the timestamps of such packets
  Spans,   \* and their spans
  Span,    \* of a regular packet, and what the player asks for
  Restarts \* may the player reset the buffer?

ASSUME JitterLinkAssumption ==
  /\ Wild \in Nat
  /\ Stamps \subseteq Timestamp
  /\ Spans \subseteq Nat \ {0}
  /\ Span \in Nat \ {0}
  /\ Restarts \in BOOLEAN

VARIABLES
  wild,    \* packets that may still come as they like
  steady,  \* is the network steady by now?
  sender,  \* the timestamp of the next regular packet
  heard,   \* history: pointer_timestamp after the last get
  player   \* what the player does next

linkVars == <<wild, steady, sender, heard, player>>
vars == <<jitterVars, linkVars>>

Init ==
  /\ JitterInit
  /\ wild = Wild
  /\ steady = FALSE
  /\ sender = 0
  /\ heard = 0
  /\ player = "get"

Arrive ==
  /\ ~steady /\ wild > 0
  /\ \E timestamp \in Stamps, span \in Spans : jitter_buffer_put(timestamp, span)
  /\ wild' = wild - 1
  /\ UNCHANGED <<steady, sender, heard, player>>

Settle ==
  /\ ~steady /\ player = "get"
  /\ steady' = TRUE
  /\ sender' \in Timestamp
  /\ player' = "receive"
  /\ UNCHANGED <<jitterVars, wild, heard>>

ArriveRegular ==
  /\ player = "receive"
  /\ jitter_buffer_put(sender, Span)
  /\ sender' = Plus(sender, Span)
  /\ player' = "get"
  /\ UNCHANGED <<wild, steady, heard>>

Get ==
  /\ player = "get"
  /\ jitter_buffer_get(Span)
  /\ heard' = pointer_timestamp'
  /\ player' = "tick"
  /\ UNCHANGED <<wild, steady, sender>>

GetAnother ==
  /\ player = "tick" /\ ~steady
  /\ returned.status = "OK"
  /\ jitter_buffer_get_another
  /\ UNCHANGED linkVars

Adjust ==
  /\ player = "tick" /\ ~steady
  /\ jitter_buffer_update_delay
  /\ player' = "adjusted"
  /\ UNCHANGED <<wild, steady, sender, heard>>

Tick ==
  /\ player \in {"tick", "adjusted"}
  /\ jitter_buffer_tick
  /\ player' = IF steady THEN "receive" ELSE "get"
  /\ UNCHANGED <<wild, steady, sender, heard>>

\* Instead of a tick, a player may say how much it has left to play.
RemainingSpan ==
  /\ player = "tick" /\ ~steady
  /\ \E rem \in 1..Span : jitter_buffer_remaining_span(rem)
  /\ player' = "get"
  /\ UNCHANGED <<wild, steady, sender, heard>>

\* The player starts anew.
Reset ==
  /\ Restarts
  /\ player = "get" /\ ~steady
  /\ jitter_buffer_reset
  /\ UNCHANGED linkVars

Next ==
  \/ Arrive \/ Settle \/ ArriveRegular
  \/ Get \/ GetAnother \/ Adjust \/ Tick \/ RemainingSpan \/ Reset

Spec == Init /\ [][Next]_vars

\* Once the network is steady the next packet comes and the player goes on:
\* one of ArriveRegular, Get and Tick, for no other step is taken then, and
\* each of them makes the player turn to something else.
SteadyStep == steady /\ player' \in {"receive", "get", "tick"} \ {player}

FairSpec == Spec /\ WF_player(SteadyStep)
============================================================================
