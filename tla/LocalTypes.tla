----------------------------- MODULE LocalTypes -----------------------------
(***************************************************************************)
(* The crypto type selection of src/crypto/api.go: the package variables  *)
(* localAccountType and localNodeType, their setters, and the key         *)
(* generators that read them, called from several goroutines.             *)
(*                                                                         *)
(* Nothing synchronises the variables.  A Go string is two words, a       *)
(* pointer and a length, and an unsynchronised write or read of one moves  *)
(* them one at a time, in an order the compiler chooses: the data race    *)
(* lets a reader see the pointer of one value with the length of another.  *)
(* A string is modelled as the pair [ptr, len]; ptr names the literal it   *)
(* points to.  GenerateKey of the plugin found is taken to succeed.        *)
(***************************************************************************)
EXTENDS Naturals

CONSTANTS
    Threads,   \* goroutines
    Calls,     \* the calls a goroutine may make: [op, var, arg]
    MaxCalls   \* calls per goroutine

\* The literals and their lengths.
Literal == [gm |-> 2, secp256k1 |-> 9, ed25519 |-> 7]

\* The keys of the cryptos map (plugin.go init).
Cryptos == {"gm", "ed25519", "secp256k1"}

Vars == {"account", "node"}

Words == {"ptr", "len"}

\* The string the two words spell, as the map lookup sees it: a literal
\* when the length is that literal's, otherwise bytes no key matches.
Spelled(w) == IF Literal[w.ptr] = w.len THEN w.ptr ELSE "torn"

VARIABLES
    local,   \* [Vars -> [ptr, len]]: localAccountType, localNodeType
    pc,      \* [Threads -> "idle" | "store" | "load"]
    cur,     \* [Threads -> the call being made]
    pend,    \* [Threads -> SUBSET Words]: words still to store or load
    got,     \* [Threads -> [ptr, len]]: the words loaded so far
    res,     \* [Threads -> result of the latest call]
    calls,   \* [Threads -> Nat]
    halted   \* a setter panicked on an invalid type

vars == <<local, pc, cur, pend, got, res, calls, halted>>

Str(lit) == [ptr |-> lit, len |-> Literal[lit]]

\* SetLocalAccountType accepts gm and secp256k1; SetLocalNodeType ed25519.
Valid(v, t) ==
    IF v = "account" THEN t \in {"gm", "secp256k1"} ELSE t = "ed25519"

-----------------------------------------------------------------------------

\* A call begins: a setter validates its argument (an invalid one panics,
\* ending the process); GenerateAccountKey / GenerateNodeKey start reading
\* the variable.
Begin(t, c) ==
    /\ ~halted /\ pc[t] = "idle" /\ calls[t] < MaxCalls
    /\ calls' = [calls EXCEPT ![t] = @ + 1]
    /\ cur' = [cur EXCEPT ![t] = c]
    /\ pend' = [pend EXCEPT ![t] = Words]
    /\ \/ /\ c.op = "set" /\ Valid(c.var, c.arg)
          /\ pc' = [pc EXCEPT ![t] = "store"]
          /\ UNCHANGED <<res, halted>>
       \/ /\ c.op = "set" /\ ~Valid(c.var, c.arg)
          /\ halted' = TRUE /\ res' = [res EXCEPT ![t] = "panic"]
          /\ UNCHANGED pc
       \/ /\ c.op = "generate"
          /\ pc' = [pc EXCEPT ![t] = "load"]
          /\ UNCHANGED <<res, halted>>
    /\ UNCHANGED <<local, got>>

\* One word of `localXType = t` is stored.
Store(t, w) ==
    /\ ~halted /\ pc[t] = "store" /\ w \in pend[t]
    /\ local' = [local EXCEPT ![cur[t].var][w] = Str(cur[t].arg)[w]]
    /\ pend' = [pend EXCEPT ![t] = @ \ {w}]
    /\ pc' = [pc EXCEPT ![t] = IF pend[t] = {w} THEN "idle" ELSE "store"]
    /\ res' = [res EXCEPT ![t] = IF pend[t] = {w} THEN "ok" ELSE @]
    /\ UNCHANGED <<cur, got, calls, halted>>

\* One word of the variable is loaded; with both, cryptos[...] is looked
\* up: no plugin gives ErrInvalidCryptoType, else a key of that type.
Load(t, w) ==
    /\ ~halted /\ pc[t] = "load" /\ w \in pend[t]
    /\ got' = [got EXCEPT ![t][w] = local[cur[t].var][w]]
    /\ pend' = [pend EXCEPT ![t] = @ \ {w}]
    /\ IF pend[t] = {w}
       THEN LET s == Spelled(got'[t])
            IN  /\ pc' = [pc EXCEPT ![t] = "idle"]
                /\ res' = [res EXCEPT ![t] =
                              IF s \in Cryptos THEN s ELSE "ErrInvalidCryptoType"]
       ELSE UNCHANGED <<pc, res>>
    /\ UNCHANGED <<local, cur, calls, halted>>

Init ==
    /\ local = [v \in Vars |-> IF v = "account" THEN Str("secp256k1")
                                                ELSE Str("ed25519")]
    /\ pc = [t \in Threads |-> "idle"]
    /\ cur = [t \in Threads |-> CHOOSE c \in Calls : TRUE]
    /\ pend = [t \in Threads |-> {}]
    /\ got = [t \in Threads |-> Str("ed25519")]
    /\ res = [t \in Threads |-> "none"]
    /\ calls = [t \in Threads |-> 0]
    /\ halted = FALSE

Next ==
    \E t \in Threads :
        \/ \E c \in Calls : Begin(t, c)
        \/ \E w \in Words : Store(t, w) \/ Load(t, w)

Spec == Init /\ [][Next]_vars

-----------------------------------------------------------------------------

TypeOK ==
    /\ local \in [Vars -> [ptr : DOMAIN Literal, len : Nat]]
    /\ pc \in [Threads -> {"idle", "store", "load"}]
    /\ cur \in [Threads -> Calls]
    /\ pend \in [Threads -> SUBSET Words]
    /\ got \in [Threads -> [ptr : DOMAIN Literal, len : Nat]]
    /\ res \in [Threads -> Cryptos \cup {"none", "ok", "panic", "ErrInvalidCryptoType"}]
    /\ calls \in [Threads -> 0..MaxCalls]
    /\ halted \in BOOLEAN

\* Only valid types are ever stored, so key generation never fails with
\* ErrInvalidCryptoType.
NoInvalidCryptoType ==
    \A t \in Threads : res[t] # "ErrInvalidCryptoType"

=============================================================================
