------------------------------ MODULE Registry ------------------------------
(***************************************************************************)
(* The type registry of src/bal/codec.go (type Codec) and the operations  *)
(* that read or change it, called concurrently by a set of threads.        *)
(*                                                                         *)
(* Every section the code runs under cdc.mtx is one atomic step.  An       *)
(* operation that takes the lock more than once (RegisterInterface,        *)
(* RegisterConcrete: assertNotSealed, then the commit; an interface field  *)
(* written by one call and read back by another; MarshalJSON then          *)
(* UnmarshalJSON) is split into those steps, so other threads interleave   *)
(* between them exactly where the code lets them.                          *)
(*                                                                         *)
(* A Go panic either aborts the process (RecoverPanics = FALSE) or is      *)
(* recovered by the caller, which then goes on using the codec            *)
(* (RecoverPanics = TRUE); the deferred Unlock makes the latter possible,  *)
(* and the code's comment at RegisterInterface relies on it.               *)
(***************************************************************************)
EXTENDS Naturals, Sequences, FiniteSets, NameScheme

CONSTANTS
    Interfaces,    \* interface types that may be registered
    Concretes,     \* concrete (struct) types
    Names,         \* names concrete types may be registered under
    Implements,    \* [Concretes -> SUBSET Interfaces]: PtrToType.Implements
    FloatUnsafe,   \* concretes with a float field lacking `amino:"unsafe"`
    Digest,        \* [Names -> Seq(Nat)]: the SHA-256 digest of each name
    Threads,       \* caller goroutines
    ThreadOps,     \* [Threads -> SUBSET Ops]: the calls each thread may make
    MaxOps,        \* bound on the calls each thread makes
    RecoverPanics, \* whether a panic is recovered by the caller
    NoInfo, None, Nil

\* A digest too short to fill both segments makes nameToDisfix panic; that
\* case is checked in MC_NameScheme and excluded here (it needs a SHA-256
\* digest with at least 26 zero bytes).
ASSUME \A n \in Names : NameToDisfix(Digest[n]) # NameToDisfixPanic

Tag(n) == NameToDisfix(Digest[n])
\* ConcreteInfo.GetDisfix / the Priority entries built from names.
Disfix(n) == ToDisfix(Tag(n).disamb, Tag(n).prefix)
PrefixOf(n) == Tag(n).prefix
Disfixes == {Disfix(n) : n \in Names}

\* The forms in which RegisterConcrete may receive its argument.
Forms == {"value", "pointer", "pointerToPointer", "pointerToInterface"}
Values == Concretes \cup {Nil}

Ops ==
    [kind : {"RegisterInterface"}, iface : Interfaces, prio : SUBSET Names]
    \cup [kind : {"RegisterConcrete"}, type : Concretes, name : Names,
          form : Forms]
    \cup [kind : {"Seal"}]
    \cup [kind : {"EncodeDecode"}, iface : Interfaces, val : Values]
    \cup [kind : {"JSONRoundTrip"}, type : Concretes]
    \cup [kind : {"TypedRoundTrip"}, type : Concretes, into : Concretes]
NoOp == [kind |-> "none"]

\* An implementer entry: a *TypeInfo of a registered concrete type, as seen
\* through its Type and its Name (whose tag gives Disamb and Prefix).
Entry == [type : Concretes, name : Names]
\* TypeInfo of a concrete type; unregistered ones come from the lazy cache.
CInfo == [registered : BOOLEAN, name : Names \cup {None}, pointer : BOOLEAN]

VARIABLES
    sealed,         \* cdc.sealed
    cinfo,          \* cdc.typeInfos restricted to concrete types
    iinfo,          \* cdc.typeInfos restricted to interfaces: the Priority
    impls,          \* [Interfaces -> Seq(Entry)]: InterfaceInfo.Implementers
    interfaceInfos, \* cdc.interfaceInfos
    concreteInfos,  \* cdc.concreteInfos
    disfixMap,      \* cdc.disfixToTypeInfo
    nameMap,        \* cdc.nameToTypeInfo
    pc, op, opsDone, wire, jsonOut, res, aborted

registry == <<sealed, cinfo, iinfo, impls, interfaceInfos, concreteInfos,
              disfixMap, nameMap>>
threads == <<pc, op, opsDone, wire, jsonOut, res, aborted>>
vars == <<registry, threads>>

PCs == {"idle", "RegisterInterface.commit", "RegisterConcrete.commit",
        "Decode", "Unmarshal", "ConsumeDisfix", "panicked"}
Results == Values \cup {"ok", "error", "panic", "wrong", "none"}

-----------------------------------------------------------------------------
(* Conflict detection.                                                     *)

\* The bucket iinfo.Implementers[p]: the entries with prefix p, in order.
Bucket(s, p) == SelectSeq(s, LAMBDA e : PrefixOf(e.name) = p)
BucketKeys(s) == {PrefixOf(s[k].name) : k \in DOMAIN s}

\* `len(cinfos) == 2 && cinfos[0].Type == cinfos[1].Type`
IsDuplicate(s, p) ==
    LET b == Bucket(s, p) IN Len(b) = 2 /\ b[1].type = b[2].type

\* Mutant of IsUnresolved: the priority loop skips the bucket's first entry.
IsUnresolvedSkipFirst(s, p, prio) ==
    LET b == Bucket(s, p)
    IN  /\ Len(b) >= 2
        /\ ~IsDuplicate(s, p)
        /\ \E k \in 2..Len(b) : Disfix(b[k].name) \notin prio

\* A bucket of 2+ entries with an entry whose disfix is not in Priority.
IsUnresolved(s, p, prio) ==
    LET b == Bucket(s, p)
    IN  /\ Len(b) >= 2
        /\ ~IsDuplicate(s, p)
        /\ \E k \in DOMAIN b : Disfix(b[k].name) \notin prio

\* `iinfo.Implementers[p] = []*TypeInfo{cinfos[0]}`: drop the second entry.
Collapse(s, p) ==
    LET k == CHOOSE k \in DOMAIN s :
                 /\ PrefixOf(s[k].name) = p
                 /\ \E j \in 1..(k - 1) : PrefixOf(s[j].name) = p
    IN  SubSeq(s, 1, k - 1) \o SubSeq(s, k + 1, Len(s))

\* checkConflictsInPrioNolock: ranges over the Implementers map in Go's
\* unspecified order and stops at the first bucket that is either a
\* duplicate (collapsed, returning nil) or unresolved (an error).  The
\* result is the set of outcomes over all iteration orders.
CheckConflicts(s, prio) ==
    LET Stops == {p \in BucketKeys(s) :
                     IsDuplicate(s, p) \/ IsUnresolved(s, p, prio)}
    IN  IF Stops = {}
        THEN {[ok |-> TRUE, impls |-> s]}
        ELSE {IF IsDuplicate(s, p)
              THEN [ok |-> TRUE, impls |-> Collapse(s, p)]
              ELSE [ok |-> FALSE, impls |-> s] : p \in Stops}

\* addCheckConflictsWithConcreteNolock from the k-th registered interface
\* on: append e to every interface its type implements and check it; on an
\* error only that interface's bucket is rolled back before the panic, the
\* interfaces already visited keep e.
RECURSIVE AddCheckFrom(_, _, _, _, _)
AddCheckFrom(k, im, e, ifs, prios) ==
    IF k > Len(ifs) THEN {[ok |-> TRUE, impls |-> im]}
    ELSE LET i == ifs[k]
         IN  IF i \notin Implements[e.type]
             THEN AddCheckFrom(k + 1, im, e, ifs, prios)
             ELSE UNION {IF r.ok
                         THEN AddCheckFrom(k + 1, [im EXCEPT ![i] = r.impls],
                                           e, ifs, prios)
                         ELSE {[ok |-> FALSE, impls |-> im]} :
                             r \in CheckConflicts(Append(im[i], e), prios[i])}

\* collectImplementersNolock: the registered concretes implementing i, in
\* registration order.
Collected(i) ==
    SelectSeq([k \in DOMAIN concreteInfos |->
                  [type |-> concreteInfos[k],
                   name |-> cinfo[concreteInfos[k]].name]],
              LAMBDA e : i \in Implements[e.type])

\* A concrete type whose TypeInfo was built by RegisterConcrete.
Registered(c) == cinfo[c] # NoInfo /\ cinfo[c].registered

-----------------------------------------------------------------------------
(* Ending a call.                                                          *)

Return(t, outcome) ==
    /\ pc' = [pc EXCEPT ![t] = "idle"]
    /\ res' = [res EXCEPT ![t] = outcome]
    /\ UNCHANGED aborted

Panic(t) ==
    IF RecoverPanics
    THEN Return(t, "panic")
    ELSE /\ pc' = [pc EXCEPT ![t] = "panicked"]
         /\ res' = [res EXCEPT ![t] = "panic"]
         /\ aborted' = TRUE

\* Starting call o on thread t.
Begin(t, o) ==
    /\ ~aborted
    /\ pc[t] = "idle"
    /\ opsDone[t] < MaxOps
    /\ op' = [op EXCEPT ![t] = o]
    /\ opsDone' = [opsDone EXCEPT ![t] = @ + 1]

-----------------------------------------------------------------------------
(* Registration.                                                           *)

\* assertNotSealed, the first locked section of both registrations.
AssertNotSealed(t, next) ==
    IF sealed THEN Panic(t)
    ELSE pc' = [pc EXCEPT ![t] = next] /\ UNCHANGED <<res, aborted>>

RegisterInterfaceBegin(t) ==
    \E o \in ThreadOps[t] :
        /\ o.kind = "RegisterInterface"
        /\ Begin(t, o)
        /\ AssertNotSealed(t, "RegisterInterface.commit")
        /\ UNCHANGED <<registry, wire, jsonOut>>

\* newTypeInfoFromInterfaceType, then under the lock collect, check and
\* setTypeInfoNoLock (which keeps an interface's first TypeInfo).
\* Mutant of PriorityDisfixes: the priority names kept as they are.
PriorityDisfixesRaw(names) == names

\* newTypeInfoFromInterfaceType: InterfaceOptions.Priority names turned
\* into the DisfixBytes that checkConflictsInPrioNolock compares against.
PriorityDisfixes(names) == {Disfix(n) : n \in names}

RegisterInterfaceCommit(t) ==
    LET i == op[t].iface
        prio == PriorityDisfixes(op[t].prio)
    IN  /\ ~aborted
        /\ pc[t] = "RegisterInterface.commit"
        /\ \E r \in CheckConflicts(Collected(i), prio) :
              IF ~r.ok
              THEN Panic(t) /\ UNCHANGED registry
              ELSE IF iinfo[i] # NoInfo
              THEN Return(t, "ok") /\ UNCHANGED registry
              ELSE /\ iinfo' = [iinfo EXCEPT ![i] = prio]
                   /\ impls' = [impls EXCEPT ![i] = r.impls]
                   /\ interfaceInfos' = Append(interfaceInfos, i)
                   /\ Return(t, "ok")
                   /\ UNCHANGED <<sealed, cinfo, concreteInfos, disfixMap,
                                  nameMap>>
        /\ UNCHANGED <<op, opsDone, wire, jsonOut>>

RegisterConcreteBegin(t) ==
    \E o \in ThreadOps[t] :
        /\ o.kind = "RegisterConcrete"
        /\ Begin(t, o)
        /\ AssertNotSealed(t, "RegisterConcrete.commit")
        /\ UNCHANGED <<registry, wire, jsonOut>>

\* Mutant of SetConcreteInfo: only a registered TypeInfo counts as present,
\* so a lazily cached one is overwritten.
SetConcreteInfoOverwrite(t, c, info) ==
    IF cinfo[c] # NoInfo /\ cinfo[c].registered
    THEN Return(t, "ok") /\ UNCHANGED <<cinfo, concreteInfos, disfixMap, nameMap>>
    ELSE /\ cinfo' = [cinfo EXCEPT ![c] = info]
         /\ concreteInfos' = Append(concreteInfos, c)
         /\ IF disfixMap[Disfix(info.name)] # None \/ nameMap[info.name] # None
            THEN Panic(t) /\ UNCHANGED <<disfixMap, nameMap>>
            ELSE /\ disfixMap' = [disfixMap EXCEPT ![Disfix(info.name)] = c]
                 /\ nameMap' = [nameMap EXCEPT ![info.name] = c]
                 /\ Return(t, "ok")

\* setTypeInfoNoLock for a registered concrete TypeInfo: a type already in
\* typeInfos is left as it is; otherwise the info is stored and appended to
\* concreteInfos before the duplicate disfix and name checks can panic.
SetConcreteInfo(t, c, info) ==
    IF cinfo[c] # NoInfo
    THEN Return(t, "ok") /\ UNCHANGED <<cinfo, concreteInfos, disfixMap, nameMap>>
    ELSE /\ cinfo' = [cinfo EXCEPT ![c] = info]
         /\ concreteInfos' = Append(concreteInfos, c)
         /\ IF disfixMap[Disfix(info.name)] # None \/ nameMap[info.name] # None
            THEN Panic(t) /\ UNCHANGED <<disfixMap, nameMap>>
            ELSE /\ disfixMap' = [disfixMap EXCEPT ![Disfix(info.name)] = c]
                 /\ nameMap' = [nameMap EXCEPT ![info.name] = c]
                 /\ Return(t, "ok")

\* The rest of RegisterConcrete: the form checks, newTypeInfoFromRegistered-
\* ConcreteType (whose parseStructInfo panics on an unsafe float field),
\* then under the lock addCheckConflictsWithConcreteNolock and
\* setTypeInfoNoLock.
RegisterConcreteCommit(t) ==
    LET o == op[t]
        e == [type |-> o.type, name |-> o.name]
        info == [registered |-> TRUE, name |-> o.name,
                 pointer |-> o.form = "pointer"]
    IN  /\ ~aborted
        /\ pc[t] = "RegisterConcrete.commit"
        /\ IF o.form \in {"pointerToPointer", "pointerToInterface"}
              \/ o.type \in FloatUnsafe
           THEN Panic(t) /\ UNCHANGED registry
           ELSE \E r \in AddCheckFrom(1, impls, e, interfaceInfos, iinfo) :
                  /\ impls' = r.impls
                  /\ IF ~r.ok
                     THEN Panic(t) /\ UNCHANGED <<cinfo, concreteInfos,
                                                  disfixMap, nameMap>>
                     ELSE SetConcreteInfo(t, o.type, info)
                  /\ UNCHANGED <<sealed, iinfo, interfaceInfos>>
        /\ UNCHANGED <<op, opsDone, wire, jsonOut>>

Seal(t) ==
    \E o \in ThreadOps[t] :
        /\ o.kind = "Seal"
        /\ Begin(t, o)
        /\ sealed' = TRUE
        /\ Return(t, "ok")
        /\ UNCHANGED <<cinfo, iinfo, impls, interfaceInfos, concreteInfos,
                       disfixMap, nameMap, wire, jsonOut>>

-----------------------------------------------------------------------------
(* Interface fields on the binary path, and the JSON adapter.              *)

\* writeCDCInterface: an unregistered interface falls back to the generic
\* writer; a nil value is the single byte 0x00; an unregistered concrete is
\* an error; otherwise Disamb, then Prefix, then the payload.
Encode(t) ==
    \E o \in ThreadOps[t] :
        LET i == o.iface
            v == o.val
        IN  /\ o.kind = "EncodeDecode"
            /\ Begin(t, o)
            /\ CASE iinfo[i] = NoInfo ->
                      /\ wire' = [wire EXCEPT ![t] = [generic |-> TRUE, bytes |-> <<v>>]]
                      /\ pc' = [pc EXCEPT ![t] = "Decode"]
                      /\ UNCHANGED <<res, aborted>>
                 [] v = Nil ->
                      /\ wire' = [wire EXCEPT ![t] = [generic |-> FALSE, bytes |-> <<0>>]]
                      /\ pc' = [pc EXCEPT ![t] = "Decode"]
                      /\ UNCHANGED <<res, aborted>>
                 [] cinfo[v] = NoInfo \/ ~cinfo[v].registered ->
                      Return(t, "error") /\ UNCHANGED wire
                 [] OTHER ->
                      /\ wire' = [wire EXCEPT ![t] =
                            [generic |-> FALSE,
                             bytes |-> Tag(cinfo[v].name).disamb
                                       \o Tag(cinfo[v].name).prefix \o <<v>>]]
                      /\ pc' = [pc EXCEPT ![t] = "Decode"]
                      /\ UNCHANGED <<res, aborted>>
            /\ UNCHANGED <<registry, jsonOut>>

\* decodeCDCInterface: a 0x00 first byte is nil; otherwise the 7 bytes are
\* looked up by exact disfix.  Bytes of the generic writer read by this
\* path are not a tag and fail.
\* getTypeInfoFromDisfixRlock: the TypeInfo disfixToTypeInfo holds for the
\* bytes, or its error.
GetTypeInfoFromDisfix(df) ==
    IF df \in Disfixes /\ disfixMap[df] # None THEN disfixMap[df] ELSE "error"

Decode(t) ==
    LET w == wire[t].bytes
        i == op[t].iface
        df == SubSeq(w, 1, DisfixBytesLen)
    IN  /\ ~aborted
        /\ pc[t] = "Decode"
        /\ CASE iinfo[i] = NoInfo ->
                  Return(t, IF wire[t].generic THEN w[1] ELSE "error")
             [] wire[t].generic -> Return(t, "error")
             [] w[1] = 0 -> Return(t, Nil)
             [] OTHER -> Return(t, GetTypeInfoFromDisfix(df))
        /\ UNCHANGED <<registry, op, opsDone, wire, jsonOut>>

\* getTypeInfoWlock on a concrete type: a type never seen is given an
\* unregistered TypeInfo (parseStructInfo panics on an unsafe float field,
\* under the lock, with nothing stored).
LazyInfo(c) == [registered |-> FALSE, name |-> None, pointer |-> FALSE]
CanGetTypeInfo(c) == cinfo[c] # NoInfo \/ c \notin FloatUnsafe
GetTypeInfo(c) ==
    /\ cinfo' = IF cinfo[c] = NoInfo THEN [cinfo EXCEPT ![c] = LazyInfo(c)]
                                     ELSE cinfo
    /\ UNCHANGED <<sealed, iinfo, impls, interfaceInfos, concreteInfos,
                   disfixMap, nameMap>>

\* MarshalJSON of a value of type c: the {"type":...,"value":...} envelope
\* iff c is registered.
Marshal(t) ==
    \E o \in ThreadOps[t] :
        LET c == o.type
            info == IF cinfo[c] = NoInfo THEN LazyInfo(c) ELSE cinfo[c]
        IN  /\ o.kind = "JSONRoundTrip"
            /\ Begin(t, o)
            /\ IF ~CanGetTypeInfo(c)
               THEN Panic(t) /\ UNCHANGED <<registry, jsonOut>>
               ELSE /\ GetTypeInfo(c)
                    /\ jsonOut' = [jsonOut EXCEPT ![t] =
                          IF info.registered
                          THEN [envelope |-> TRUE, name |-> info.name]
                          ELSE [envelope |-> FALSE, name |-> None]]
                    /\ pc' = [pc EXCEPT ![t] = "Unmarshal"]
                    /\ UNCHANGED <<res, aborted>>
            /\ UNCHANGED wire

\* UnmarshalJSON into a *c: a registered c needs an envelope naming it; an
\* unregistered c decodes the bytes as its fields, and an envelope read that
\* way is not c's encoding (decodeReflectJSON errors or fills in garbage).
Unmarshal(t) ==
    LET c == op[t].type
        j == jsonOut[t]
        info == IF cinfo[c] = NoInfo THEN LazyInfo(c) ELSE cinfo[c]
    IN  /\ ~aborted
        /\ pc[t] = "Unmarshal"
        /\ GetTypeInfo(c)
        /\ CASE info.registered /\ ~j.envelope -> Return(t, "error")
             [] info.registered /\ j.name # info.name -> Return(t, "error")
             [] ~info.registered /\ j.envelope ->
                  \E x \in {"error", "wrong"} : Return(t, x)
             [] OTHER -> Return(t, c)
        /\ UNCHANGED <<op, opsDone, wire, jsonOut>>

\* addDisfix, on the path that encodes a concrete value "with type": the
\* value's disfix is written first if its type is registered.
AddDisfix(t) ==
    \E o \in ThreadOps[t] :
        LET c == o.type
        IN  /\ o.kind = "TypedRoundTrip"
            /\ Begin(t, o)
            /\ wire' = [wire EXCEPT ![t] =
                  [generic |-> FALSE,
                   bytes |-> IF Registered(c)
                             THEN Tag(cinfo[c].name).disamb
                                  \o Tag(cinfo[c].name).prefix \o <<c>>
                             ELSE <<c>>]]
            /\ pc' = [pc EXCEPT ![t] = "ConsumeDisfix"]
            /\ UNCHANGED <<registry, jsonOut, res, aborted>>

\* consumeDisfix, when decoding into a value of type `into`: if that type is
\* registered, 7 bytes are read and discarded; the payload is then decoded
\* as an `into`.  A payload of another type decodes into garbage or fails.
ConsumeDisfix(t) ==
    LET c2 == op[t].into
        w == wire[t].bytes
        payload == IF Registered(c2) THEN SubSeq(w, DisfixBytesLen + 1, Len(w))
                                     ELSE w
    IN  /\ ~aborted
        /\ pc[t] = "ConsumeDisfix"
        /\ IF Registered(c2) /\ Len(w) < DisfixBytesLen
           THEN Return(t, "error")
           ELSE IF payload = <<c2>>
           THEN Return(t, c2)
           ELSE \E x \in {"error", "wrong"} : Return(t, x)
        /\ UNCHANGED <<registry, op, opsDone, wire, jsonOut>>

\* The program has stopped: a panic aborted it, or every thread is done.
Terminated ==
    /\ aborted \/ \A t \in Threads : pc[t] = "idle" /\ opsDone[t] = MaxOps
    /\ UNCHANGED vars

-----------------------------------------------------------------------------

Init ==
    /\ sealed = FALSE
    /\ cinfo = [c \in Concretes |-> NoInfo]
    /\ iinfo = [i \in Interfaces |-> NoInfo]
    /\ impls = [i \in Interfaces |-> <<>>]
    /\ interfaceInfos = <<>>
    /\ concreteInfos = <<>>
    /\ disfixMap = [d \in Disfixes |-> None]
    /\ nameMap = [n \in Names |-> None]
    /\ pc = [t \in Threads |-> "idle"]
    /\ op = [t \in Threads |-> NoOp]
    /\ opsDone = [t \in Threads |-> 0]
    /\ wire = [t \in Threads |-> [generic |-> FALSE, bytes |-> <<>>]]
    /\ jsonOut = [t \in Threads |-> [envelope |-> FALSE, name |-> None]]
    /\ res = [t \in Threads |-> "none"]
    /\ aborted = FALSE

Next ==
    \/ \E t \in Threads :
          \/ RegisterInterfaceBegin(t) \/ RegisterInterfaceCommit(t)
          \/ RegisterConcreteBegin(t) \/ RegisterConcreteCommit(t)
          \/ Seal(t)
          \/ Encode(t) \/ Decode(t)
          \/ Marshal(t) \/ Unmarshal(t)
          \/ AddDisfix(t) \/ ConsumeDisfix(t)
    \/ Terminated

Spec == Init /\ [][Next]_vars

-----------------------------------------------------------------------------
(* Properties.                                                             *)

TypeOK ==
    /\ sealed \in BOOLEAN
    /\ cinfo \in [Concretes -> CInfo \cup {NoInfo}]
    /\ iinfo \in [Interfaces -> SUBSET Disfixes \cup {NoInfo}]
    /\ impls \in [Interfaces -> Seq(Entry)]
    /\ interfaceInfos \in Seq(Interfaces)
    /\ concreteInfos \in Seq(Concretes)
    /\ disfixMap \in [Disfixes -> Concretes \cup {None}]
    /\ nameMap \in [Names -> Concretes \cup {None}]
    /\ pc \in [Threads -> PCs]
    /\ op \in [Threads -> Ops \cup {NoOp}]
    /\ opsDone \in [Threads -> 0..MaxOps]
    /\ res \in [Threads -> Results]
    /\ aborted \in BOOLEAN

\* The explicit-disambiguation contract (checkConflictsInPrioNolock, run by
\* both RegisterInterface and RegisterConcrete, in either order and under
\* every map iteration order): two distinct registered concrete types that
\* implement a registered interface and share a Prefix both have their
\* disfix in that interface's Priority.
NoUnresolvedConflict ==
    \A i \in Interfaces, c1, c2 \in Concretes :
        /\ iinfo[i] # NoInfo
        /\ c1 # c2 /\ Registered(c1) /\ Registered(c2)
        /\ i \in Implements[c1] \cap Implements[c2]
        /\ PrefixOf(cinfo[c1].name) = PrefixOf(cinfo[c2].name)
        => {Disfix(cinfo[c1].name), Disfix(cinfo[c2].name)} \subseteq iinfo[i]

\* An interface field written by writeCDCInterface and read back by
\* decodeCDCInterface, with other threads registering and sealing in
\* between, decodes to the value written whenever both calls succeed.
RoundTrip ==
    \A t \in Threads :
        pc[t] = "idle" /\ op[t].kind = "EncodeDecode" /\ res[t] \in Values
        => res[t] = op[t].val

\* A value marshalled by MarshalJSON and unmarshalled by UnmarshalJSON into
\* its own type, with other threads registering in between, comes back as
\* that value: the two calls agree on whether the type carries an envelope.
JSONRoundTrip ==
    \A t \in Threads :
        pc[t] = "idle" /\ op[t].kind = "JSONRoundTrip" /\ res[t] # "panic"
        => res[t] = op[t].type

\* What a registration changes that encoding and decoding can observe: the
\* registered concrete types with their names, the interfaces with their
\* Priority, and the disfix and name indexes.  Lazily cached unregistered
\* TypeInfos are left out: they may still be added after Seal.
RegisteredView ==
    <<[c \in Concretes |-> IF Registered(c) THEN cinfo[c].name ELSE None],
      iinfo, disfixMap, nameMap>>

\* Seal is a one-way latch after which the registry cannot change (the
\* contract TestCodecSeal checks for calls made after Seal returns): no
\* step taken once sealed is set changes what is registered.
SealedIsFinal == [][sealed => RegisteredView' = RegisteredView]_vars

\* A RegisterConcrete(o, name) call that returns normally has registered
\* o's type under name: encoding its values behind an interface works.
RegistrationTakesEffect ==
    \A t \in Threads :
        pc[t] = "idle" /\ op[t].kind = "RegisterConcrete" /\ res[t] = "ok"
        => Registered(op[t].type) /\ cinfo[op[t].type].name = op[t].name

\* Bytes encoded with their type tag and decoded into a registered type are
\* accepted only if the tag is that type's: decoding a disfix that does not
\* match fails rather than reading another type's payload.
TypedDecodeChecksTag ==
    [][\A t \in Threads :
         LET c2 == op[t].into
         IN  /\ pc[t] = "ConsumeDisfix" /\ pc'[t] = "idle"
             /\ Registered(c2)
             /\ \/ Len(wire[t].bytes) < DisfixBytesLen
                \/ SubSeq(wire[t].bytes, 1, DisfixBytesLen) # Disfix(cinfo[c2].name)
             => res'[t] = "error"]_vars

\* A registration is atomic: every implementer entry of every interface is
\* a concrete type registered under that entry's name, so a registration
\* that panicked left nothing behind in any interface's Implementers.
ImplementersAreRegistered ==
    \A i \in Interfaces : \A k \in DOMAIN impls[i] :
        LET e == impls[i][k]
        IN  Registered(e.type) /\ cinfo[e.type].name = e.name

=============================================================================
