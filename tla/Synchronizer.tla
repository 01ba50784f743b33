---------------------------- MODULE Synchronizer ----------------------------
(***************************************************************************)
(* libbitcoin::synchronizer: a completion handler shared by several        *)
(* asynchronous operations.  Copies of it are called from any thread; the  *)
(* call that clears the count, or ends the wait early, invokes the handler *)
(* once.  The count is kept under mutex_, the handler is invoked outside.  *)
(***************************************************************************)
EXTENDS Naturals, Sequences, TLAPS

CONSTANTS
  Callers,        \* operations, each of which completes once
  Errors,         \* error codes they may report
  success,        \* error::success
  MaxClearance    \* bound on the clearance count

Codes == Errors \cup {success}

ASSUME SynchronizerAssumption ==
  /\ success \notin Errors
  /\ MaxClearance \in Nat

VARIABLES
  clearance_count, \* clearance_count_, fixed by the constructor
  terminate,      \* terminate_, likewise
  counter,        \* counter_, shared by the copies
  pc,             \* "idle", "cleared" (about to invoke) or "done"
  code,           \* the code each caller reported
  calls,          \* history: codes in the order of the critical sections
  handled         \* history: the results the handler was invoked with

vars == <<clearance_count, terminate, counter, pc, code, calls, handled>>

Init ==
  /\ clearance_count \in 0..MaxClearance
  /\ terminate \in {"on_error", "on_success", "on_count"}
  /\ counter = 0
  /\ pc = [c \in Callers |-> "idle"]
  /\ code = [c \in Callers |-> success]
  /\ calls = <<>>
  /\ handled = <<>>

complete(ec) ==
  \/ terminate = "on_error" /\ ec # success
  \/ terminate = "on_success" /\ ec = success

(* Fault: an early end is reported as success.                             *)
ResultSuccess(ec) == success

result(ec) == IF terminate = "on_count" THEN success ELSE ec

(* Fault: a call after the count was cleared is counted again.             *)
CallUncounted(c, ec) ==
  /\ pc[c] = "idle"
  /\ code' = [code EXCEPT ![c] = ec]
  /\ calls' = Append(calls, ec)
  /\ LET count == IF complete(ec) THEN clearance_count ELSE counter + 1 IN
       /\ counter' = count
       /\ pc' = [pc EXCEPT ![c] = IF count = clearance_count THEN "cleared" ELSE "done"]
  /\ UNCHANGED <<clearance_count, terminate, handled>>

(* Fault: the count before this call is compared.                          *)
CallClearsLate(c, ec) ==
  /\ pc[c] = "idle"
  /\ code' = [code EXCEPT ![c] = ec]
  /\ calls' = Append(calls, ec)
  /\ counter' = IF counter < clearance_count THEN counter + 1 ELSE counter
  /\ pc' = [pc EXCEPT ![c] = "done"]
  /\ UNCHANGED <<clearance_count, terminate, handled>>

(* operator(), under mutex_.                                               *)
Call(c, ec) ==
  /\ pc[c] = "idle"
  /\ code' = [code EXCEPT ![c] = ec]
  /\ calls' = Append(calls, ec)
  /\ IF counter = clearance_count
     THEN pc' = [pc EXCEPT ![c] = "done"] /\ UNCHANGED counter
     ELSE LET count == IF complete(ec) THEN clearance_count ELSE counter + 1 IN
            /\ counter' = count
            /\ pc' = [pc EXCEPT ![c] = IF count = clearance_count THEN "cleared" ELSE "done"]
  /\ UNCHANGED <<clearance_count, terminate, handled>>

(* operator(), outside mutex_.                                             *)
Handle(c) ==
  /\ pc[c] = "cleared"
  /\ handled' = Append(handled, result(code[c]))
  /\ pc' = [pc EXCEPT ![c] = "done"]
  /\ UNCHANGED <<clearance_count, terminate, counter, code, calls>>

Next == \E c \in Callers : (\E ec \in Codes : Call(c, ec)) \/ Handle(c)

Spec == Init /\ [][Next]_vars

(* Every operation completes.                                              *)
FairSpec == Spec /\ \A c \in Callers : WF_vars((\E ec \in Codes : Call(c, ec)) \/ Handle(c))

-----------------------------------------------------------------------------
TypeOK ==
  /\ clearance_count \in Nat
  /\ terminate \in {"on_error", "on_success", "on_count"}
  /\ counter \in 0..clearance_count
  /\ pc \in [Callers -> {"idle", "cleared", "done"}]
  /\ code \in [Callers -> Codes]
  /\ calls \in Seq(Codes)
  /\ handled \in Seq(Codes)

(* The handler is invoked at most once, also when calls keep arriving      *)
(* after an early end, and never while another call is about to invoke it. *)
HandledOnce ==
  /\ Len(handled) <= 1
  /\ \A c \in Callers : pc[c] = "cleared" => handled = <<>>
  /\ \A c, d \in Callers : pc[c] = "cleared" /\ pc[d] = "cleared" => c = d

(* What the wait is for, read from the calls it counts.                    *)
Counted == {i \in DOMAIN calls : i <= clearance_count}

Expected(ec) ==
  CASE terminate = "on_count" -> ec = success
    [] terminate = "on_error" ->
         IF \E i \in Counted : calls[i] # success
         THEN \E i \in Counted : /\ ec = calls[i] /\ ec # success
                                 /\ \A j \in 1..(i - 1) : calls[j] = success
         ELSE ec = success
    [] terminate = "on_success" -> ec = success <=> \E i \in Counted : calls[i] = success

(* The result is success on the count, the first error or otherwise        *)
(* success, or a success exactly when one of the counted calls succeeded,  *)
(* whichever thread invokes the handler and whatever comes later.  Which   *)
(* error the handler gets when all of them fail is left open: the comment  *)
(* on on_success says "otherwise operation_failed", and result() passes on *)
(* the code of the call that reached the count.                            *)
ResultIsRight == \A i \in DOMAIN handled : Expected(handled[i])

(* If enough operations complete the handler is invoked; with a count of   *)
(* zero it never is.                                                       *)
HandlerIsInvoked == clearance_count > 0 ~> handled # <<>>

(* The counter reaches the count exactly when somebody clears it.          *)
IInv ==
  /\ TypeOK
  /\ HandledOnce
  /\ counter < clearance_count => handled = <<>> /\ \A c \in Callers : pc[c] # "cleared"

(* The results that the calls have decided on and no later call changes:   *)
(* the first error or success is among the counted calls, or all of them   *)
(* have been made.                                                         *)
Decided ==
  {ec \in Codes :
    /\ terminate = "on_count" => ec = success
    /\ terminate = "on_error" =>
         \/ \E i \in Counted : /\ ec = calls[i] /\ ec # success
                               /\ \A j \in 1..(i - 1) : calls[j] = success
         \/ /\ ec = success /\ clearance_count <= Len(calls)
            /\ \A i \in Counted : calls[i] = success
    /\ terminate = "on_success" =>
         \/ ec = success /\ \E i \in Counted : calls[i] = success
         \/ /\ 0 < clearance_count /\ clearance_count <= Len(calls)
            /\ ec = calls[clearance_count] /\ \A i \in Counted : calls[i] # success}

(* While the count is not reached no call has ended the wait; the call     *)
(* that clears it has the result.                                          *)
ResultInv ==
  /\ counter < clearance_count =>
       /\ Len(calls) = counter
       /\ terminate = "on_error" => \A i \in DOMAIN calls : calls[i] = success
       /\ terminate = "on_success" => \A i \in DOMAIN calls : calls[i] # success
  /\ \A c \in Callers : pc[c] = "cleared" => result(code[c]) \in Decided
  /\ \A i \in DOMAIN handled : handled[i] \in Decided

-----------------------------------------------------------------------------
LEMMA CallInv ==
  ASSUME IInv, NEW c \in Callers, NEW ec \in Codes, Call(c, ec)
  PROVE  IInv'
<1> DEFINE count == IF complete(ec) THEN clearance_count ELSE counter + 1
<1>1. /\ pc[c] = "idle" /\ code' = [code EXCEPT ![c] = ec] /\ calls' = Append(calls, ec)
      /\ clearance_count' = clearance_count /\ terminate' = terminate /\ handled' = handled
      /\ clearance_count \in Nat /\ counter \in 0..clearance_count
  BY DEF Call, IInv, TypeOK
<1>2. CASE counter = clearance_count
  <2>1. counter' = counter /\ pc' = [pc EXCEPT ![c] = "done"]
    BY <1>2 DEF Call
  <2> QED
    BY <1>1, <1>2, <2>1 DEF IInv, TypeOK, HandledOnce
<1>3. CASE counter # clearance_count
  <2>1. /\ counter' = count
        /\ pc' = [pc EXCEPT ![c] = IF count = clearance_count THEN "cleared" ELSE "done"]
    BY <1>3 DEF Call
  <2>2. count \in 0..clearance_count
    BY <1>1, <1>3
  <2>3. handled = <<>> /\ \A d \in Callers : pc[d] # "cleared"
    BY <1>1, <1>3 DEF IInv
  <2> HIDE DEF count
  <2>4. TypeOK'
    BY <1>1, <2>1, <2>2 DEF IInv, TypeOK
  <2>5. \A d \in Callers : pc'[d] = "cleared" => d = c /\ count = clearance_count
    BY <2>1, <2>3 DEF IInv, TypeOK
  <2> QED
    BY <1>1, <2>1, <2>2, <2>3, <2>4, <2>5 DEF IInv, HandledOnce
<1> QED
  BY <1>2, <1>3

LEMMA HandleInv ==
  ASSUME IInv, NEW c \in Callers, Handle(c)
  PROVE  IInv'
<1>1. /\ pc[c] = "cleared" /\ handled' = Append(handled, result(code[c]))
      /\ pc' = [pc EXCEPT ![c] = "done"] /\ clearance_count' = clearance_count
      /\ terminate' = terminate /\ counter' = counter /\ code' = code /\ calls' = calls
  BY DEF Handle
<1>2. result(code[c]) \in Codes /\ handled = <<>> /\ ~(counter < clearance_count)
  BY <1>1 DEF IInv, TypeOK, HandledOnce, result, Codes
<1>3. handled' \in Seq(Codes) /\ Len(handled') = 1
  BY <1>1, <1>2
<1>4. TypeOK'
  BY <1>1, <1>3 DEF IInv, TypeOK
<1>5. \A d \in Callers : pc'[d] # "cleared"
  BY <1>1 DEF IInv, TypeOK, HandledOnce
<1> QED
  BY <1>1, <1>2, <1>3, <1>4, <1>5 DEF IInv, HandledOnce

(* For any number of operations, any count and every mode the invariant    *)
(* of the counter holds.                                                   *)
THEOREM Invariance == Spec => []IInv
<1>1. Init => IInv
  BY SynchronizerAssumption DEF Init, IInv, TypeOK, HandledOnce, Codes
<1>2. IInv /\ [Next]_vars => IInv'
  <2> SUFFICES ASSUME IInv, [Next]_vars
               PROVE  IInv'
    OBVIOUS
  <2>1. CASE UNCHANGED vars
    BY <2>1 DEF vars, IInv, TypeOK, HandledOnce
  <2> QED
    BY <2>1, CallInv, HandleInv DEF Next
<1> QED
  BY <1>1, <1>2, PTL DEF Spec

(* The handler is invoked at most once.                                    *)
THEOREM AtMostOnce == Spec => []HandledOnce
<1>1. IInv => HandledOnce
  BY DEF IInv
<1> QED
  BY <1>1, Invariance, PTL

(* What the calls have decided a further call does not change.             *)
LEMMA DecidedIsFinal ==
  ASSUME IInv, NEW c \in Callers, NEW ec \in Codes, Call(c, ec),
         NEW res \in Decided
  PROVE  res \in Decided'
<1>1. /\ calls \in Seq(Codes) /\ calls' = Append(calls, ec)
      /\ clearance_count \in Nat /\ clearance_count' = clearance_count
      /\ terminate' = terminate /\ res \in Codes
  BY DEF Call, IInv, TypeOK, Decided
<1>2. /\ Len(calls') = Len(calls) + 1 /\ DOMAIN calls' = 1..(Len(calls) + 1)
      /\ DOMAIN calls = 1..Len(calls) /\ Len(calls) \in Nat
      /\ \A i \in 1..Len(calls) : calls'[i] = calls[i]
  BY <1>1
<1>3. Counted \subseteq Counted' /\ \A i \in Counted : i \in 1..Len(calls)
  BY <1>1, <1>2 DEF Counted
<1>4. clearance_count <= Len(calls) => Counted' = Counted
  BY <1>1, <1>2 DEF Counted
<1>5. CASE terminate = "on_count"
  BY <1>1, <1>5 DEF Decided
<1>6. CASE terminate = "on_error"
  <2>1. CASE \E i \in Counted : /\ res = calls[i] /\ res # success
                                /\ \A j \in 1..(i - 1) : calls[j] = success
    <3>1. PICK i \in Counted : /\ res = calls[i] /\ res # success
                               /\ \A j \in 1..(i - 1) : calls[j] = success
      BY <2>1
    <3>2. i \in Counted' /\ res = calls'[i] /\ \A j \in 1..(i - 1) : calls'[j] = success
      BY <1>2, <1>3, <3>1
    <3> QED
      BY <1>1, <1>6, <3>1, <3>2, Zenon DEF Decided
  <2>2. CASE /\ res = success /\ clearance_count <= Len(calls)
             /\ \A i \in Counted : calls[i] = success
    BY <1>1, <1>2, <1>3, <1>4, <1>6, <2>2 DEF Decided
  <2> QED
    BY <1>6, <2>1, <2>2 DEF Decided
<1>7. CASE terminate = "on_success"
  <2>1. CASE res = success /\ \E i \in Counted : calls[i] = success
    BY <1>1, <1>2, <1>3, <1>7, <2>1 DEF Decided
  <2>2. CASE /\ 0 < clearance_count /\ clearance_count <= Len(calls)
             /\ res = calls[clearance_count] /\ \A i \in Counted : calls[i] # success
    BY <1>1, <1>2, <1>3, <1>4, <1>7, <2>2 DEF Decided
  <2> QED
    BY <1>7, <2>1, <2>2 DEF Decided
<1> QED
  BY <1>5, <1>6, <1>7 DEF IInv, TypeOK

(* The call that clears the count has the result.                          *)
LEMMA ClearingDecides ==
  ASSUME IInv, ResultInv, NEW c \in Callers, NEW ec \in Codes, Call(c, ec),
         counter < clearance_count, complete(ec) \/ counter + 1 = clearance_count
  PROVE  result(ec) \in Decided'
<1>1. /\ calls \in Seq(Codes) /\ calls' = Append(calls, ec)
      /\ clearance_count \in Nat /\ clearance_count' = clearance_count
      /\ terminate' = terminate /\ counter \in Nat
  BY DEF Call, IInv, TypeOK
<1>2. /\ Len(calls') = counter + 1 /\ DOMAIN calls' = 1..(counter + 1)
      /\ DOMAIN calls = 1..counter
      /\ \A i \in 1..counter : calls'[i] = calls[i]
      /\ calls'[counter + 1] = ec
  BY <1>1 DEF ResultInv
<1>3. Counted' = 1..(counter + 1)
  BY <1>1, <1>2 DEF Counted
<1>4. CASE terminate = "on_count"
  BY <1>1, <1>4 DEF Decided, result, Codes
<1>5. CASE terminate = "on_error"
  <2>1. \A i \in 1..counter : calls'[i] = success
    BY <1>2, <1>5 DEF ResultInv
  <2>2. result(ec) = ec
    BY <1>1, <1>5 DEF result
  <2>3. CASE ec # success
    <3>1. counter + 1 \in Counted' /\ (counter + 1) - 1 = counter
      BY <1>1, <1>3
    <3> QED
      BY <1>1, <1>2, <1>5, <2>1, <2>2, <2>3, <3>1 DEF Decided
  <2>4. CASE ec = success
    <3>1. counter + 1 = clearance_count
      BY <1>5, <2>4 DEF complete
    <3>2. \A i \in Counted' : calls'[i] = success
      BY <1>1, <1>2, <1>3, <2>1, <2>4
    <3>3. clearance_count' <= Len(calls') /\ terminate' = "on_error"
      BY <1>1, <1>2, <1>5, <3>1
    <3> QED
      BY <2>2, <2>4, <3>2, <3>3 DEF Decided
  <2> QED
    BY <2>3, <2>4
<1>6. CASE terminate = "on_success"
  <2>1. \A i \in 1..counter : calls'[i] # success
    BY <1>2, <1>6 DEF ResultInv
  <2>2. result(ec) = ec
    BY <1>1, <1>6 DEF result
  <2>3. CASE ec = success
    <3>1. counter + 1 \in Counted' /\ calls'[counter + 1] = success
      BY <1>1, <1>2, <1>3, <2>3
    <3> QED
      BY <1>1, <1>6, <2>2, <2>3, <3>1, Zenon DEF Decided
  <2>4. CASE ec # success
    <3>1. counter + 1 = clearance_count
      BY <1>6, <2>4 DEF complete
    <3>2. \A i \in Counted' : calls'[i] # success
      BY <1>1, <1>2, <1>3, <2>1, <2>4
    <3>3. /\ 0 < clearance_count' /\ clearance_count' <= Len(calls')
          /\ terminate' = "on_success" /\ ec = calls'[clearance_count']
      BY <1>1, <1>2, <1>6, <3>1
    <3> QED
      BY <2>2, <2>4, <3>2, <3>3 DEF Decided
  <2> QED
    BY <2>3, <2>4
<1> QED
  BY <1>4, <1>5, <1>6 DEF IInv, TypeOK

LEMMA CallResult ==
  ASSUME IInv, ResultInv, NEW c \in Callers, NEW ec \in Codes, Call(c, ec)
  PROVE  ResultInv'
<1> DEFINE count == IF complete(ec) THEN clearance_count ELSE counter + 1
<1>1. /\ pc[c] = "idle" /\ code' = [code EXCEPT ![c] = ec] /\ calls' = Append(calls, ec)
      /\ clearance_count' = clearance_count /\ terminate' = terminate /\ handled' = handled
      /\ clearance_count \in Nat /\ counter \in 0..clearance_count
      /\ pc \in [Callers -> {"idle", "cleared", "done"}] /\ code \in [Callers -> Codes]
      /\ calls \in Seq(Codes) /\ handled \in Seq(Codes)
  BY DEF Call, IInv, TypeOK
<1>2. Decided \subseteq Decided'
  BY DecidedIsFinal
<1>3. \A i \in DOMAIN handled' : handled'[i] \in Decided'
  BY <1>1, <1>2 DEF ResultInv
<1>4. \A d \in Callers \ {c} : pc'[d] = pc[d] /\ code'[d] = code[d]
  BY <1>1 DEF Call
<1>5. \A d \in Callers \ {c} : pc'[d] = "cleared" => result(code[d])' \in Decided'
  BY <1>1, <1>2, <1>4 DEF ResultInv, result
<1>6. code'[c] = ec /\ result(code[c])' = result(ec)
  BY <1>1 DEF result
<1>7. CASE counter = clearance_count
  <2>1. counter' = counter /\ pc'[c] = "done"
    BY <1>1, <1>7 DEF Call
  <2> QED
    BY <1>1, <1>3, <1>5, <1>7, <2>1 DEF ResultInv
<1>8. CASE counter < clearance_count
  <2>1. counter' = count /\ pc'[c] = IF count = clearance_count THEN "cleared" ELSE "done"
    BY <1>1, <1>8 DEF Call
  <2>2. pc'[c] = "cleared" => result(code[c])' \in Decided'
    BY <1>6, <1>8, <2>1, ClearingDecides
  <2>3. ASSUME counter' < clearance_count
        PROVE  /\ Len(calls') = counter'
               /\ terminate = "on_error" => \A i \in DOMAIN calls' : calls'[i] = success
               /\ terminate = "on_success" => \A i \in DOMAIN calls' : calls'[i] # success
    <3>1. ~complete(ec) /\ counter' = counter + 1
      BY <1>1, <2>1, <2>3
    <3>2. /\ Len(calls') = counter + 1 /\ DOMAIN calls' = 1..(counter + 1)
          /\ DOMAIN calls = 1..counter /\ calls'[counter + 1] = ec
          /\ \A i \in 1..counter : calls'[i] = calls[i]
      BY <1>1, <1>8 DEF ResultInv
    <3>3. /\ terminate = "on_error" => \A i \in 1..counter : calls'[i] = success
          /\ terminate = "on_success" => \A i \in 1..counter : calls'[i] # success
      BY <1>8, <3>2 DEF ResultInv
    <3>4. /\ terminate = "on_error" => ec = success
          /\ terminate = "on_success" => ec # success
      BY <3>1 DEF complete
    <3> QED
      BY <1>1, <3>1, <3>2, <3>3, <3>4
  <2> QED
    BY <1>1, <1>3, <1>5, <2>2, <2>3 DEF ResultInv
<1> QED
  BY <1>1, <1>7, <1>8

LEMMA HandleResult ==
  ASSUME IInv, ResultInv, NEW c \in Callers, Handle(c)
  PROVE  ResultInv'
<1>1. /\ pc[c] = "cleared" /\ handled = <<>> /\ handled' = Append(handled, result(code[c]))
      /\ pc' = [pc EXCEPT ![c] = "done"] /\ clearance_count' = clearance_count
      /\ terminate' = terminate /\ counter' = counter /\ code' = code /\ calls' = calls
      /\ pc \in [Callers -> {"idle", "cleared", "done"}]
  BY DEF Handle, IInv, HandledOnce, TypeOK
<1>2. Decided' = Decided
  BY <1>1 DEF Decided, Counted
<1>3. \A d \in Callers : result(code[d])' = result(code[d])
  BY <1>1 DEF result
<1>4. \A i \in DOMAIN handled' : handled'[i] = result(code[c])
  <2> DEFINE res == result(code[c])
  <2>1. handled' = Append(<<>>, res)
    BY <1>1
  <2> HIDE DEF res
  <2>2. handled' = <<res>>
    BY <2>1
  <2> QED
    BY <2>2 DEF res
<1> QED
  BY <1>1, <1>2, <1>3, <1>4 DEF ResultInv

(* The handler gets the first error, a success exactly when there was one  *)
(* to wait for, or success on the count, for any number of operations, any *)
(* count and every mode, whichever call invokes it and whatever is called  *)
(* later.                                                                  *)
THEOREM RightResult == Spec => []ResultIsRight
<1>1. Init => ResultInv
  BY DEF Init, ResultInv
<1>2. IInv /\ ResultInv /\ [Next]_vars => ResultInv'
  <2> SUFFICES ASSUME IInv, ResultInv, [Next]_vars
               PROVE  ResultInv'
    OBVIOUS
  <2>1. CASE UNCHANGED vars
    BY <2>1 DEF vars, ResultInv, Decided, Counted, result
  <2> QED
    BY <2>1, CallResult, HandleResult DEF Next
<1>3. IInv /\ ResultInv => ResultIsRight
  <2> SUFFICES ASSUME IInv, ResultInv, NEW ec \in Decided
               PROVE  Expected(ec)
    BY DEF ResultInv, ResultIsRight
  <2>1. CASE terminate = "on_count"
    BY <2>1 DEF Decided, Expected
  <2>2. CASE terminate = "on_error"
    BY <2>2 DEF Decided, Expected
  <2>3. CASE terminate = "on_success"
    <3>1. CASE ec = success /\ \E i \in Counted : calls[i] = success
      BY <2>3, <3>1 DEF Expected
    <3>2. CASE /\ 0 < clearance_count /\ clearance_count <= Len(calls)
               /\ ec = calls[clearance_count] /\ \A i \in Counted : calls[i] # success
      <4>1. clearance_count \in Counted
        BY <3>2 DEF IInv, TypeOK, Counted
      <4> QED
        BY <2>3, <3>2, <4>1 DEF Expected
    <3> QED
      BY <2>3, <3>1, <3>2 DEF Decided
  <2> QED
    BY <2>1, <2>2, <2>3 DEF IInv, TypeOK
<1> QED
  BY <1>1, <1>2, <1>3, Invariance, PTL DEF Spec

=============================================================================
