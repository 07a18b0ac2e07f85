------------------------------ MODULE Signer ------------------------------
(***************************************************************************)
(* STDEIP155Signer.Sender of src/types/sign.go, called by several         *)
(* goroutines on shared SignerData values.                                 *)
(*                                                                         *)
(* data.SignParam() hands out the data's own *big.Int, and Sender          *)
(* subtracts 4 from it in place (signParam.Sub(signParam, 4)) when it does *)
(* not match the signer's.  The big.Int is shared state: a later call, or  *)
(* a concurrent one, sees the value an earlier call left.  Sub reads its   *)
(* operand and then writes the result; two goroutines doing so on one      *)
(* big.Int is a data race, modelled by a read step and a write step.       *)
(* Recover is outside the repository: it succeeds or fails                 *)
(* nondeterministically and does not touch the data's sign parameter.     *)
(***************************************************************************)
EXTENDS Integers

CONSTANTS
    Threads,      \* goroutines calling Sender
    Data,         \* SignerData values (model values)
    Params,       \* the sign parameters a data value can be created with
    SignerParam,  \* the argument of NewSTDEIP155Signer (Nil for nil)
    Nil,
    MaxCalls      \* Sender calls per goroutine

ASSUME MaxCalls \in Nat /\ Params \subseteq Nat

VARIABLES
    param0,     \* [Data -> Int]: each data's sign parameter when created
    param,      \* [Data -> Int]: the current value of its *big.Int
    protected,  \* [Data -> BOOLEAN]: data.Protected()
    pc,         \* [Threads -> step of Sender]
    tgt,        \* [Threads -> Data]: the data of the running call
    tmp,        \* [Threads -> Int]: the operand Sub has read
    res,        \* [Threads -> result of the latest call]
    calls       \* [Threads -> Nat]: calls made

vars == <<param0, param, protected, pc, tgt, tmp, res, calls>>

\* NewSTDEIP155Signer: a nil parameter becomes 0; signParamMul = 2 * it.
NewSTDEIP155Signer(p) ==
    LET sp == IF p = Nil THEN 0 ELSE p
    IN  [signParam |-> sp, signParamMul |-> 2 * sp]

s == NewSTDEIP155Signer(SignerParam)

Results == {"none", "ok", "errRecover", "ErrInvalidSignParam"}

\* data.Recover(hash, mul, homestead): outside the repository.
RecoverResults == {"ok", "errRecover"}

\* The call of t returns r.
Return(t, r) ==
    /\ pc' = [pc EXCEPT ![t] = "idle"]
    /\ res' = [res EXCEPT ![t] = r]

-----------------------------------------------------------------------------

\* Sender entry: unprotected data goes to STDHomesteadSigner.Sender, which
\* only calls Recover; protected data reads data.SignParam().
Sender(t, d) ==
    /\ pc[t] = "idle" /\ calls[t] < MaxCalls
    /\ calls' = [calls EXCEPT ![t] = @ + 1]
    /\ tgt' = [tgt EXCEPT ![t] = d]
    /\ IF protected[d]
       THEN pc' = [pc EXCEPT ![t] = "cmp1"] /\ UNCHANGED res
       ELSE \E r \in RecoverResults : Return(t, r)
    /\ UNCHANGED <<param0, param, protected, tmp>>

\* if signParam.Cmp(s.signParam) != 0 ... else Recover.
Cmp1(t) ==
    /\ pc[t] = "cmp1"
    /\ IF param[tgt[t]] # s.signParam
       THEN pc' = [pc EXCEPT ![t] = "subRead"] /\ UNCHANGED res
       ELSE \E r \in RecoverResults : Return(t, r)
    /\ UNCHANGED <<param0, param, protected, tgt, tmp, calls>>

\* signParam.Sub(signParam, big.NewInt(4)): the read of the operand ...
SubRead(t) ==
    /\ pc[t] = "subRead"
    /\ tmp' = [tmp EXCEPT ![t] = param[tgt[t]]]
    /\ pc' = [pc EXCEPT ![t] = "subWrite"]
    /\ UNCHANGED <<param0, param, protected, tgt, res, calls>>

\* ... and the write of the difference into the same big.Int.
SubWrite(t) ==
    /\ pc[t] = "subWrite"
    /\ param' = [param EXCEPT ![tgt[t]] = tmp[t] - 4]
    /\ pc' = [pc EXCEPT ![t] = "cmp2"]
    /\ UNCHANGED <<param0, protected, tgt, tmp, res, calls>>

\* if signParam.Cmp(s.signParam) != 0 { return ErrInvalidSignParam }.
Cmp2(t) ==
    /\ pc[t] = "cmp2"
    /\ IF param[tgt[t]] # s.signParam
       THEN Return(t, "ErrInvalidSignParam")
       ELSE \E r \in RecoverResults : Return(t, r)
    /\ UNCHANGED <<param0, param, protected, tgt, tmp, calls>>

Init ==
    /\ param0 \in [Data -> Params]
    /\ param = param0
    /\ protected \in [Data -> BOOLEAN]
    /\ pc = [t \in Threads |-> "idle"]
    /\ tgt = [t \in Threads |-> CHOOSE d \in Data : TRUE]
    /\ tmp = [t \in Threads |-> 0]
    /\ res = [t \in Threads |-> "none"]
    /\ calls = [t \in Threads |-> 0]

Next ==
    \E t \in Threads :
        \/ \E d \in Data : Sender(t, d)
        \/ Cmp1(t) \/ SubRead(t) \/ SubWrite(t) \/ Cmp2(t)

Spec == Init /\ [][Next]_vars

-----------------------------------------------------------------------------

\* The parameters a single call on fresh data accepts: the signer's own,
\* or the signer's plus 4 (the offset Sender strips).
Accepted(p) == p \in {s.signParam, s.signParam + 4}

\* Sender's answer on protected data depends only on the data: a call
\* returns ErrInvalidSignParam exactly when the parameter the data was
\* created with is not accepted, however many calls came before it.
VerdictStable ==
    \A t \in Threads :
        (pc[t] = "idle" /\ res[t] # "none" /\ protected[tgt[t]])
            => ((res[t] = "ErrInvalidSignParam") <=> ~Accepted(param0[tgt[t]]))

=============================================================================
