----------------------- MODULE EncoderHeapProperties -----------------------
(* What creating and destroying an encoder promises.                        *)
EXTENDS EncoderHeap

TypeOK ==
  /\ alive \in [Kind -> 0..MaxInits]
  /\ field \in [Kind -> {"null", "set", "wild"}]
  /\ {wrapper, failing, failed} \subseteq BOOLEAN
  /\ \A i \in 1..Len(stack) :
       /\ stack[i].kind \in Kind
       /\ stack[i].done \in 0..Len(Shape[stack[i].kind].parts)
  /\ caller \in {"idle", "codec", "sid", "open"}
  /\ fault \in {"none", "null_use", "wild_free"}
  /\ inits \in 0..MaxInits

\* No exit function follows a pointer that was never initialised, whichever
\* allocation fails: every pointer is NULL before the first part can fail.
NoWildFree == fault # "wild_free"

\* AMREncodeInit leaves a whole encoder or none: the pointer that is handed
\* out is NULL, or every part below it is there.
WholeOrNone ==
  caller = "open" =>
    \A root \in {"frame", "sid_sync"} :
      \/ field[root] = "null"
      \/ \A k \in Reached[root] : alive[k] > 0 /\ field[k] = "set"
                                   /\ Parts(k) \subseteq Reached[root]

\* After Encoder_Interface_exit nothing is left of an encoder, and after an
\* init that failed nothing of the codec, but for the lspState that lsp_init
\* loses when Q_plsf_init fails.
OnlyLspLeaks ==
  /\ caller = "idle" => \A k \in Kind \ {"lsp"} : alive[k] = 0
  /\ (caller = "open" /\ field["frame"] = "null") =>
        \A k \in Kind \ {"lsp", "sid_sync"} : alive[k] = 0

\* Encode crashes only when an allocation failed: AMREncodeInit initialises
\* all that AMREncode uses.
CrashMeansFailure == fault = "null_use" => failed

----------------------------------------------------------------------------
(* The inductive invariant.                                                 *)

\* The objects whose init functions are under way.
Unfinished == {stack[i].kind : i \in 1..Len(stack)}

\* The objects of the encoder that is there or being created: of an lspState
\* the count says nothing, one that was lost is still alive.
Made ==
  {k \in Kind : IF k = "lsp" THEN k \in Unfinished \/ alive["q_plsf"] > 0
                ELSE alive[k] > 0}

Counted ==
  /\ alive \in [Kind -> Nat]
  /\ \A k \in Kind \ {"lsp"} : alive[k] <= 1
  /\ "lsp" \in Made => alive["lsp"] > 0
  /\ alive["lsp"] <= inits    \* each encoder loses one at most
  /\ (caller = "codec" /\ ~failing /\ "lsp" \notin Made) => alive["lsp"] < inits
  /\ inits \in 0..MaxInits
  /\ caller # "idle" => inits > 0

\* No object is there without its owner.
Owned == \A k \in Kind : \A p \in Parts(k) : p \in Made => k \in Made

\* Only the object whose init function runs may have a pointer that was not
\* initialised, and not when that function undoes what it did.
MayBeWild(k) ==
  ~Shape[k].clears /\ stack # <<>> /\ Top.kind = k /\ ~failing

\* The pointers of the objects that are there tell which parts are there too.
Linked ==
  /\ field \in [Kind -> {"null", "set", "wild"}]
  /\ \A k \in Made : \A p \in Parts(k) :
       /\ p \in Made => p \in Unfinished \/ field[p] = "set"
       /\ p \notin Made => field[p] = "null" \/ MayBeWild(k)
       /\ k \notin Unfinished => p \in Made /\ p \notin Unfinished

Root == IF caller = "codec" THEN "frame" ELSE "sid_sync"

\* An init function has made the parts before the one it is at, and none
\* after it.
InitUnderWay(i) ==
  LET parts == Shape[stack[i].kind].parts
      done  == stack[i].done
  IN  /\ stack[i].kind \in Made /\ field[stack[i].kind] = "null"
      /\ done <= Len(parts)
      /\ i < Len(stack) => done < Len(parts) /\ stack[i + 1].kind = parts[done + 1]
      /\ \A j \in 1..Len(parts) :
           /\ j <= done => parts[j] \in Made /\ parts[j] \notin Unfinished
           /\ (j > done /\ parts[j] \in Made) => (i < Len(stack) /\ j = done + 1)

\* The init functions call one another.
Nested ==
  /\ stack \in Seq([kind : Kind, done : Nat])
  /\ \A i \in 1..Len(stack) : InitUnderWay(i)
  /\ \A i, j \in 1..Len(stack) : stack[i].kind = stack[j].kind => i = j
  /\ stack # <<>> => stack[1].kind = Root
  /\ failing /\ stack # <<>> =>
       /\ Top.done < Len(Shape[Top.kind].parts)
       /\ field[Shape[Top.kind].parts[Top.done + 1]] = "null"

\* An init function that returned left an object and a pointer to it, or
\* neither after a failure.
Returned(root) ==
  IF root \in Made THEN field[root] = "set" ELSE field[root] = "null" /\ failed

\* What AMREncodeInit and its callers have of the two roots.
Called ==
  /\ {wrapper, failing, failed} \subseteq BOOLEAN
  /\ caller \in {"idle", "codec", "sid", "open"}
  /\ caller \in {"idle", "open"} => stack = <<>> /\ ~failing
  /\ caller = "idle" => Made = {}
  /\ caller = "codec" => "sid_sync" \notin Made
  /\ (caller \in {"codec", "sid"} /\ stack = <<>>) => Root \notin Made
  /\ caller \in {"sid", "open"} => Returned("frame")
  /\ caller = "open" => Returned("sid_sync")
  /\ failing => failed
  /\ failing /\ stack = <<>> => field[Root] = "null"

HeapInv ==
  /\ Counted /\ Owned /\ Linked /\ Nested /\ Called
  /\ fault \in {"none", "null_use"}
  /\ CrashMeansFailure
============================================================================
