----------------------------- MODULE Interrupts -----------------------------
(***************************************************************************)
(* How an isolate is interrupted (runtime/vm/isolate.{h,cc}): the stack     *)
(* limit that Dart code compares its stack pointer with is overwritten by   *)
(* a value above every stack address, whose low bits say which interrupts   *)
(* are requested.  The true limit is kept in saved_stack_limit_, and an     *)
(* interrupt is pending when the two differ.  The limit changes whenever a  *)
(* thread starts or stops executing the isolate's code.                     *)
(***************************************************************************)
EXTENDS Integers

CONSTANTS
  AllOnes,      \* ~static_cast<uword>(0)
  StackLimits,  \* the true limits of thread stacks
  NoLimit,
  BothPending   \* may an interrupt be scheduled while one of the other kind is pending?

kApiInterrupt == 1
kMessageInterrupt == 2
Kinds == {kApiInterrupt, kMessageInterrupt}
kInterruptsMask == 3

\* The top words are no stack addresses, and the mask fills the low bits.
ASSUME WordAssumption ==
  /\ AllOnes \in Nat /\ AllOnes % 4 = 3
  /\ StackLimits \subseteq 0 .. AllOnes - 4
  /\ NoLimit \notin Nat /\ BothPending \in BOOLEAN

VARIABLES
  stack_limit, saved_stack_limit,
  scope,      \* how the isolate is current in a thread: not at all, made so by its
              \* creator or the embedder, or by a StartIsolateScope
  outer,      \* the limit Dart_RunLoop's SwitchIsolateScope restores
  requested   \* the interrupts scheduled and not delivered since

limitVars == <<stack_limit, saved_stack_limit, scope, outer, requested>>

\* limit | kind
OrBit(limit, kind) ==
  IF (limit \div kind) % 2 = 1 THEN limit ELSE limit + kind

\* Isolate::Init, in the thread that creates the isolate.
InterruptsInit ==
  \E limit \in StackLimits :
    /\ stack_limit = limit /\ saved_stack_limit = limit
    /\ scope = "embedder" /\ outer = NoLimit /\ requested = {}

\* Mutant: a pending interrupt is overwritten.
SetBothLimits(limit) ==
  stack_limit' = limit /\ saved_stack_limit' = limit

SetStackLimit(limit) ==
  /\ stack_limit' = IF stack_limit = saved_stack_limit THEN limit ELSE stack_limit
  /\ saved_stack_limit' = limit

\* From any thread: Dart_InterruptIsolate, or an OOB message was posted.
ScheduleInterrupts(kind) ==
  /\ BothPending \/ requested \subseteq {kind}
  /\ stack_limit' = OrBit(IF stack_limit = saved_stack_limit
                            THEN AllOnes - kInterruptsMask ELSE stack_limit, kind)
  /\ requested' = requested \cup {kind}
  /\ UNCHANGED <<saved_stack_limit, scope, outer>>

\* The interrupts GetAndClearInterrupts returns.
PendingBits ==
  IF stack_limit = saved_stack_limit THEN {}
  ELSE {kind \in Kinds : ((stack_limit % 4) \div kind) % 2 = 1}

\* A stack check fails and calls StackOverflow: a true overflow throws and
\* leaves the interrupts pending, else GetAndClearInterrupts.
StackOverflow(stack_pos) ==
  /\ scope # "none" /\ stack_pos < stack_limit
  /\ ~(stack_pos < saved_stack_limit)
  /\ stack_limit' = saved_stack_limit
  /\ requested' = requested \ PendingBits
  /\ UNCHANGED <<saved_stack_limit, scope, outer>>

\* StartIsolateScope, constructor and destructor.
StartIsolateScope(limit) ==
  /\ scope = "none"
  /\ SetStackLimit(limit)
  /\ scope' = "start"
  /\ UNCHANGED <<outer, requested>>

EndIsolateScope ==
  /\ scope = "start"
  /\ SetStackLimit(AllOnes)
  /\ scope' = "none"
  /\ UNCHANGED <<outer, requested>>

\* SwitchIsolateScope(NULL) in Dart_RunLoop, constructor and destructor.
SwitchIsolateScope ==
  /\ scope = "embedder"
  /\ outer' = saved_stack_limit
  /\ scope' = "none"
  /\ UNCHANGED <<stack_limit, saved_stack_limit, requested>>

EndSwitchIsolateScope ==
  /\ scope = "none" /\ outer # NoLimit
  /\ SetStackLimit(outer)
  /\ outer' = NoLimit
  /\ scope' = "embedder"
  /\ UNCHANGED requested

\* Dart_ExitIsolate and Dart_EnterIsolate: the limit stays.
ExitIsolate ==
  /\ scope = "embedder"
  /\ scope' = "none"
  /\ UNCHANGED <<stack_limit, saved_stack_limit, outer, requested>>

EnterIsolate ==
  /\ scope = "none" /\ outer = NoLimit
  /\ scope' = "embedder"
  /\ UNCHANGED <<stack_limit, saved_stack_limit, outer, requested>>

InterruptsNext ==
  \/ \E kind \in Kinds : ScheduleInterrupts(kind)
  \/ \E limit \in StackLimits : StackOverflow(limit) \/ StartIsolateScope(limit)
  \/ EndIsolateScope \/ SwitchIsolateScope \/ EndSwitchIsolateScope
  \/ ExitIsolate \/ EnterIsolate

InterruptsSpec == InterruptsInit /\ [][InterruptsNext]_limitVars

-----------------------------------------------------------------------------
(* Properties.                                                             *)

\* Types of the variables.
LimitTypeOK ==
  /\ stack_limit \in 0 .. AllOnes
  /\ saved_stack_limit \in StackLimits \cup {AllOnes}
  /\ scope \in {"none", "embedder", "start"}
  /\ outer \in StackLimits \cup {AllOnes, NoLimit}
  /\ requested \subseteq Kinds

\* Exactly the interrupts that were scheduled and not yet delivered are the ones
\* the next stack check will deliver, whatever scopes began and ended meanwhile:
\* "No interrupt pending" in SetStackLimit is right whenever it is concluded.
InterruptsPending == requested = PendingBits

\* Dart code that has used up its stack always fails its stack check, with or
\* without an interrupt pending.
OverflowIsNoticed ==
  \A stack_pos \in 0 .. AllOnes - 4 :
    stack_pos < saved_stack_limit => stack_pos < stack_limit

\* The inductive invariant: what stack_limit_ holds for each set of requests.  A
\* single request leaves one of the two low bits clear, so its word is neither a
\* stack limit nor the limit of an idle isolate.
PendingWord ==
  \/ requested = {} /\ stack_limit = saved_stack_limit
  \/ requested = {kApiInterrupt} /\ stack_limit = AllOnes - 2
  \/ requested = {kMessageInterrupt} /\ stack_limit = AllOnes - 1

LimitInv == LimitTypeOK /\ PendingWord
=============================================================================
