------------------------------ MODULE Subscript ------------------------------
(***************************************************************************)
(* _getitem_cpp and _setitem_cpp of imperative/python/src/tensor.cpp:      *)
(* the conditional-take shortcut, the lowering of the plan that            *)
(* IndexNormalizer produces to Subtensor / IndexingMultiAxisVec, and for   *)
(* assignment the value constant, the trailing-dim copy check (its        *)
(* message text is left out), the broadcast, the SetSubtensor /            *)
(* IndexingSetMultiAxisVec operator and the reshape back to the original   *)
(* shape.                                                                  *)
(*                                                                         *)
(* The operators themselves are external: the gathered region's shape is  *)
(* any shape within the bounds, Broadcast succeeds exactly when the value  *)
(* is broadcastable from the trailing axis, the set operator returns a     *)
(* tensor of its input's shape.                                            *)
(***************************************************************************)
EXTENDS IndexNormalizer, TLC

CONSTANTS
    ValueShapes,   \* shapes an assigned value may have
    RegionShapes   \* shapes the gather operator may return

VARIABLES
    mode,      \* "get" or "set"
    value,     \* the assigned value: [shape, tensor]
    gathered,  \* shape of the region the gather operator returned
    result     \* shape of the tensor _setitem_cpp returns

svars == <<mode, value, gathered, result>>
vars  == <<nvars, svars>>

NoValue == [shape |-> <<>>, tensor |-> TRUE]
Values  == [shape : ValueShapes, tensor : BOOLEAN]

-----------------------------------------------------------------------------
\* _try_cond_take: a single (non-tuple) boolean index with the tensor's
\* exact shape is one CondTake.
CondTakeApplies ==
    /\ ~call.tuple
    /\ IsBoolDtype(call.index[1])
    /\ call.known
    /\ call.index[1].shape = call.shape

\* The operator the plan selects (up[3]).
GatherOp == IF useSubtensor THEN "subtensor" ELSE "multiaxisvec"
SetOp    == IF useSubtensor THEN "setsubtensor" ELSE "setmultiaxisvec"

\* The copy check of lines 794-798, over the dims both shapes have,
\* counted from the last.
CopyMismatch(vs, ts) ==
    \E j \in 0..(Min({Len(vs), Len(ts)}) - 1) :
        /\ vs[Len(vs) - j] # 1
        /\ vs[Len(vs) - j] # ts[Len(ts) - j]

\* The external Broadcast operator.
Broadcastable(vs, ts) ==
    /\ Len(vs) <= Len(ts)
    /\ \A j \in 0..(Len(vs) - 1) : vs[Len(vs) - j] \in {1, ts[Len(ts) - j]}

-----------------------------------------------------------------------------
GetItem ==
    /\ pc = "getitem"
    /\ \/ /\ CondTakeApplies
          /\ ops' = <<"condtake">>
          /\ pc' = "done"
       \/ /\ ~CondTakeApplies
          /\ pc' = "unpack"
          /\ UNCHANGED ops
    /\ UNCHANGED <<call, inp, idx, needExpand, i, offset, tdim, items, tensors,
                   useSubtensor, err, svars>>

\* The plan is lowered to its gather operator, whose output is returned.
GetItemApply ==
    /\ pc = "unpacked" /\ mode = "get"
    /\ ops' = Append(ops, GatherOp)
    /\ pc' = "done"
    /\ UNCHANGED <<call, inp, idx, needExpand, i, offset, tdim, items, tensors,
                   useSubtensor, err, svars>>

\* A value that is not a tensor becomes a constant of the target's dtype
\* and device before the index is unpacked.
SetItem ==
    /\ pc = "setitem"
    /\ ops' = IF value.tensor THEN ops ELSE Append(ops, "const")
    /\ pc' = "unpack"
    /\ UNCHANGED <<call, inp, idx, needExpand, i, offset, tdim, items, tensors,
                   useSubtensor, err, svars>>

\* The region is gathered first, with the same plan.
SetItemGather ==
    /\ pc = "unpacked" /\ mode = "set"
    /\ ops' = Append(ops, GatherOp)
    /\ \E ts \in RegionShapes : gathered' = ts
    /\ pc' = "check"
    /\ UNCHANGED <<call, inp, idx, needExpand, i, offset, tdim, items, tensors,
                   useSubtensor, err, mode, value, result>>

SetItemCheck ==
    /\ pc = "check"
    /\ \/ /\ CopyMismatch(value.shape, gathered)
          /\ pc' = "error" /\ err' = "cannot copy"
       \/ /\ ~CopyMismatch(value.shape, gathered)
          /\ pc' = "broadcast"
          /\ UNCHANGED err
    /\ UNCHANGED <<call, inp, idx, needExpand, i, offset, tdim, items, tensors,
                   useSubtensor, ops, mode, value, gathered, result>>

SetItemBroadcastToTensor ==
    /\ pc = "broadcast"
    /\ ops' = Append(ops, "broadcast")
    /\ \/ /\ ~Broadcastable(value.shape, gathered)
          /\ pc' = "undefined" /\ UNCHANGED <<value, err>>
       \/ /\ Broadcastable(value.shape, gathered)
          /\ value' = [value EXCEPT !.shape = inp]
          /\ pc' = "set"
          /\ UNCHANGED err
    /\ UNCHANGED <<call, inp, idx, needExpand, i, offset, tdim, items, tensors,
                   useSubtensor, mode, gathered, result>>

\* val._broadcast(tmp_result.shape).  When Broadcast fails the NULL result
\* is stolen into val unchecked and passed on to the set operator as an
\* argument (undefined behaviour).
SetItemBroadcast ==
    /\ pc = "broadcast"
    /\ ops' = Append(ops, "broadcast")
    /\ \/ /\ ~Broadcastable(value.shape, gathered)
          /\ pc' = "undefined" /\ UNCHANGED <<value, err>>
       \/ /\ Broadcastable(value.shape, gathered)
          /\ value' = [value EXCEPT !.shape = gathered]
          /\ pc' = "set"
          /\ UNCHANGED err
    /\ UNCHANGED <<call, inp, idx, needExpand, i, offset, tdim, items, tensors,
                   useSubtensor, mode, gathered, result>>

\* The set operator returns a tensor of the (possibly collapsed) shape;
\* if masks were collapsed (up[4]) it is reshaped back to org_shape.
SetItemApply ==
    /\ pc = "set"
    /\ ops' = Append(ops, SetOp)
    /\ result' = inp
    /\ pc' = IF needExpand THEN "reshape back" ELSE "done"
    /\ UNCHANGED <<call, inp, idx, needExpand, i, offset, tdim, items, tensors,
                   useSubtensor, err, mode, value, gathered>>

SetItemReshapeBack ==
    /\ pc = "reshape back"
    /\ ops' = Append(ops, "reshape")
    /\ result' = call.shape
    /\ pc' = "done"
    /\ UNCHANGED <<call, inp, idx, needExpand, i, offset, tdim, items, tensors,
                   useSubtensor, err, mode, value, gathered>>

-----------------------------------------------------------------------------
\* Assignment is checked on tensors of known shape (org_shape is read
\* from the tensor and used for the reshape back).
SubscriptInit ==
    \E c \in Calls, m \in {"get", "set"} :
        /\ m = "set" => c.known
        /\ InitNormalizer(c)
        /\ mode = m
        /\ pc = IF m = "get" THEN "getitem" ELSE "setitem"
        /\ IF m = "get" THEN value = NoValue ELSE value \in Values
        /\ gathered = <<>>
        /\ result = <<>>

SubscriptNext ==
    \/ NormalizerNext /\ UNCHANGED svars
    \/ GetItem
    \/ GetItemApply
    \/ SetItem
    \/ SetItemGather
    \/ SetItemCheck
    \/ SetItemBroadcast
    \/ SetItemApply
    \/ SetItemReshapeBack

SubscriptSpec == SubscriptInit /\ [][SubscriptNext]_vars

-----------------------------------------------------------------------------
(* Properties.                                                             *)

Primitives == {"condtake", "reshape", "subtensor", "multiaxisvec", "broadcast",
               "setsubtensor", "setmultiaxisvec"}

SubscriptTypeOK ==
    /\ mode \in {"get", "set"}
    /\ value \in [shape : ValueShapes \cup RegionShapes, tensor : BOOLEAN]
    /\ gathered \in RegionShapes \cup {<<>>}
    /\ result \in Seq(Nat)
    /\ pc \in {"getitem", "setitem", "unpack", "ellipsis", "expand", "items",
               "unpacked", "check", "broadcast", "set", "reshape back",
               "done", "error", "undefined"}
    /\ ops \in Seq(Primitives \cup {"const"})
=============================================================================
