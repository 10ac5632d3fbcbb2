-------------------------- MODULE MCNativeSession --------------------------
(* Small instances of NativeSession for TLC. *)
EXTENDS NativeSession, TLC

CONSTANTS t1, t2, o1, o2

MCFrameOf == [o \in Ops |-> IF o = o1 THEN 7 ELSE 9]

\* One receiving call of every shape, about every operation.
CallShapes ==
  {[fn |-> "await",      max |-> 1, kind |-> AnyKind,   op |-> NoOp, use |-> "next"],
   [fn |-> "batch",      max |-> 2, kind |-> "RESULT_PUSHED", op |-> NoOp, use |-> "typed_each"],
   [fn |-> "drain",      max |-> 1, kind |-> "CONTROL", op |-> NoOp, use |-> "return"],
   [fn |-> "frames",     max |-> 1, kind |-> AnyKind,   op |-> NoOp, use |-> "return"],
   [fn |-> "frames_all", max |-> 0, kind |-> AnyKind,   op |-> NoOp, use |-> "each"]}
  \cup {[fn |-> "result", max |-> 2, kind |-> AnyKind, op |-> o, use |-> "return"] : o \in Ops}

\* The calls that matter for the bindings of operations.
BindingCalls ==
  {[fn |-> "batch", max |-> 1, kind |-> AnyKind, op |-> NoOp, use |-> "return"]}
  \cup {[fn |-> "result", max |-> 2, kind |-> AnyKind, op |-> o, use |-> "return"] : o \in Ops}

\* Threads are interchangeable.
ThreadSymmetry == Permutations(Threads)
=============================================================================
