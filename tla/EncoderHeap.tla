---------------------------- MODULE EncoderHeap ----------------------------
(* The objects an AMR encoder is made of, one allocation at a time, each of *)
(* which may fail: the init function of an object allocates it, calls the   *)
(* init functions of its parts in order, and undoes what it did when one of *)
(* them fails. One encoder exists at a time (see AmrEnc).                   *)
EXTENDS Integers, Sequences

CONSTANT MaxInits   \* bound on calls of Encoder_Interface_init
ASSUME EncoderAssumption == MaxInits \in Nat

(* What each init function does: the parts it initialises, whether it sets  *)
(* the pointers to them to NULL before, and whether it exits after failure. *)

Leaf        == [parts |-> <<>>,             clears |-> TRUE,  undoes |-> TRUE]
cl_ltp_init == [parts |-> <<"pitch">>,      clears |-> FALSE, undoes |-> TRUE]

lsp_init    == [parts |-> <<"q_plsf">>,     clears |-> FALSE, undoes |-> FALSE]

\* A slip to detect: a failure is not undone, as in lsp_init.
gainQuant_initLeaks ==
               [parts |-> <<"gain_adapt">>, clears |-> TRUE,  undoes |-> FALSE]

gainQuant_init ==
               [parts |-> <<"gain_adapt">>, clears |-> TRUE,  undoes |-> TRUE]

lpc_init    == [parts |-> <<"levinson">>,   clears |-> TRUE,  undoes |-> TRUE]

\* A slip to detect: the pointers are not set to NULL.
cod_amr_initUncleared ==
  [parts |-> <<"cl_ltp", "lsp", "gainQuant", "p_ol_wgh", "ton_stab", "vad1",
               "dtx_enc", "lpc">>,
   clears |-> FALSE, undoes |-> TRUE]

cod_amr_init ==
  [parts |-> <<"cl_ltp", "lsp", "gainQuant", "p_ol_wgh", "ton_stab", "vad1",
               "dtx_enc", "lpc">>,
   clears |-> TRUE, undoes |-> TRUE]

GSMInitEncode == [parts |-> <<"pre_proc", "cod_amr">>, clears |-> TRUE, undoes |-> TRUE]

Shape ==
  [frame |-> GSMInitEncode, pre_proc |-> Leaf, cod_amr |-> cod_amr_init,
   cl_ltp |-> cl_ltp_init, pitch |-> Leaf, lsp |-> lsp_init, q_plsf |-> Leaf,
   gainQuant |-> gainQuant_init, gain_adapt |-> Leaf, p_ol_wgh |-> Leaf,
   ton_stab |-> Leaf, vad1 |-> Leaf, dtx_enc |-> Leaf, lpc |-> lpc_init,
   levinson |-> Leaf, sid_sync |-> Leaf]

Kind == DOMAIN Shape
Parts(kind) == {Shape[kind].parts[i] : i \in 1..Len(Shape[kind].parts)}

VARIABLES
  alive,    \* objects of each kind that are allocated
  field,    \* the pointer to an object, in its owner: "null", "set" or
            \* "wild" (not initialised)
  wrapper,  \* is the encoder_state allocated?
  stack,    \* the init functions under way, with the parts that are done
  failing,  \* has the init function just called returned -1?
  caller,   \* what AMREncodeInit and its callers do: "idle", "codec", "sid",
            \* "open"
  failed,   \* history: did an allocation of this encoder fail?
  fault,    \* "none", "null_use" or "wild_free"
  inits

vars == <<alive, field, wrapper, stack, failing, caller, failed, fault, inits>>

Init ==
  /\ alive = [k \in Kind |-> 0]
  /\ field = [k \in Kind |-> "wild"]
  /\ wrapper = FALSE
  /\ stack = <<>>
  /\ failing = FALSE
  /\ caller = "idle"
  /\ failed = FALSE
  /\ fault = "none"
  /\ inits = 0

Running == fault = "none"
Top == stack[Len(stack)]
Pop(s) == SubSeq(s, 1, Len(s) - 1)

\* What the exit function of a kind reaches through pointers that are not NULL.
Reached[kind \in Kind] ==
  {kind} \union UNION {Reached[p] : p \in {q \in Parts(kind) : field[q] # "null"}}

\* The exit function of an object.
Exit(kinds) ==
  LET gone == UNION {Reached[k] : k \in kinds}
  IN  /\ alive' = [k \in Kind |-> IF k \in gone THEN alive[k] - 1 ELSE alive[k]]
      /\ fault' = IF \E k \in gone : k \notin kinds /\ field[k] = "wild"
                  THEN "wild_free" ELSE "none"

----------------------------------------------------------------------------
(* Encoder_Interface_init and AMREncodeInit                                 *)

Encoder_Interface_init ==
  /\ Running /\ caller = "idle" /\ inits < MaxInits
  /\ inits' = inits + 1
  /\ failed' = FALSE
  /\ \/ /\ wrapper' = TRUE
        /\ caller' = "codec"
        /\ UNCHANGED fault
     \/ /\ fault' = "null_use"    \* malloc failed: sid_sync_init writes there
        /\ failed' = TRUE
        /\ UNCHANGED <<wrapper, caller>>
  /\ UNCHANGED <<alive, field, stack, failing>>

Building == Running /\ ~failing /\ caller \in {"codec", "sid"}

\* The kind whose init function is called next.
Wanted ==
  IF stack = <<>> THEN {IF caller = "codec" THEN "frame" ELSE "sid_sync"}
  ELSE IF Top.done < Len(Shape[Top.kind].parts)
       THEN {Shape[Top.kind].parts[Top.done + 1]} ELSE {}

\* A slip to detect: the owner's pointer is set before the parts are there.
AllocateSets ==
  /\ Building
  /\ \E kind \in Wanted :
       /\ alive' = [alive EXCEPT ![kind] = @ + 1]
       /\ field' = [k \in Kind |->
            CASE k = kind -> "set"
              [] k \in Parts(kind) -> IF Shape[kind].clears THEN "null" ELSE "wild"
              [] OTHER -> field[k]]
       /\ stack' = Append(stack, [kind |-> kind, done |-> 0])
  /\ UNCHANGED <<wrapper, failing, caller, failed, fault, inits>>

Allocate ==
  /\ Building
  /\ \E kind \in Wanted :
       /\ alive' = [alive EXCEPT ![kind] = @ + 1]
       /\ field' = [k \in Kind |->
            CASE k = kind -> "null"
              [] k \in Parts(kind) -> IF Shape[kind].clears THEN "null" ELSE "wild"
              [] OTHER -> field[k]]
       /\ stack' = Append(stack, [kind |-> kind, done |-> 0])
  /\ UNCHANGED <<wrapper, failing, caller, failed, fault, inits>>

\* A slip to detect: the owner's pointer is not set to NULL.
AllocateFailsKeeps ==
  /\ Building /\ Wanted # {}
  /\ failing' = TRUE
  /\ failed' = TRUE
  /\ UNCHANGED <<alive, field, wrapper, stack, caller, fault, inits>>

AllocateFails ==
  /\ Building
  /\ \E kind \in Wanted : field' = [field EXCEPT ![kind] = "null"]
  /\ failing' = TRUE
  /\ failed' = TRUE
  /\ UNCHANGED <<alive, wrapper, stack, caller, fault, inits>>

\* A slip to detect: sid_sync is not initialised.
OnwardsOpen == "open"

\* AMREncodeInit: after the codec, sid_sync, whatever the result.
Onwards == IF caller = "codec" THEN "sid" ELSE "open"

Finish ==
  /\ Building /\ Wanted = {}
  /\ field' = [field EXCEPT ![Top.kind] = "set"]
  /\ stack' = IF Len(stack) = 1 THEN <<>>
              ELSE [Pop(stack) EXCEPT ![Len(stack) - 1].done = @ + 1]
  /\ caller' = IF Len(stack) = 1 THEN Onwards ELSE caller
  /\ UNCHANGED <<alive, wrapper, failing, failed, fault, inits>>

Undo ==
  /\ Running /\ failing /\ stack # <<>>
  /\ IF Shape[Top.kind].undoes THEN Exit({Top.kind}) ELSE UNCHANGED <<alive, fault>>
  /\ stack' = Pop(stack)
  /\ UNCHANGED <<field, wrapper, failing, caller, failed, inits>>

\* Nobody looks at the result.
GiveUp ==
  /\ Running /\ failing /\ stack = <<>>
  /\ failing' = FALSE
  /\ caller' = Onwards
  /\ UNCHANGED <<alive, field, wrapper, stack, failed, fault, inits>>

----------------------------------------------------------------------------

\* AMREncode follows both pointers.
Encoder_Interface_Encode ==
  /\ Running /\ caller = "open"
  /\ fault' = IF field["frame"] = "set" /\ field["sid_sync"] = "set"
              THEN "none" ELSE "null_use"
  /\ UNCHANGED <<alive, field, wrapper, stack, failing, caller, failed, inits>>

Encoder_Interface_exit ==
  /\ Running /\ caller = "open"
  /\ Exit({k \in {"frame", "sid_sync"} : field[k] # "null"})
  /\ field' = [field EXCEPT !["frame"] = "null", !["sid_sync"] = "null"]
  /\ wrapper' = FALSE
  /\ caller' = "idle"
  /\ UNCHANGED <<stack, failing, failed, inits>>

Next ==
  \/ Encoder_Interface_init \/ Encoder_Interface_Encode \/ Encoder_Interface_exit
  \/ Allocate \/ AllocateFails \/ Finish \/ Undo \/ GiveUp

Spec == Init /\ [][Next]_vars
============================================================================
