------------------------------ MODULE Catalog ------------------------------
(***************************************************************************)
(* What the type catalog promises (spec.md sections 3, 4.3 and 7), with   *)
(* registrations as single atomic steps:                                  *)
(*   - register_interface fails if the catalog is sealed or if two        *)
(*     registered implementers share a prefix without both disfixes in    *)
(*     the priority list; registering an interface again is a no-op;      *)
(*   - register_concrete fails if the catalog is sealed, the form is not  *)
(*     supported, a float field lacks the opt-in, the type would make an   *)
(*     unresolved prefix conflict in an interface it implements, or its    *)
(*     name or disfix is taken; registering a type again is a no-op;      *)
(*   - a failed registration has no effect on the catalog and is fatal:   *)
(*     nothing happens after it;                                           *)
(*   - seal is a one-way latch.                                           *)
(* Each caller's latest call is visible with its result, so that a step   *)
(* is matched to the call that made it.  Only registrations and Seal are   *)
(* described: lookups and traffic leave the catalog alone.                 *)
(***************************************************************************)
CONSTANTS
    Interfaces, Concretes, Names,
    Implements,      \* [Concretes -> SUBSET Interfaces]
    PrefixOfName,    \* [Names -> prefixes]
    DisfixOfName,    \* [Names -> disfixes]
    Forms,           \* the forms a concrete type can be registered in
    SupportedForms,  \* the forms that can be registered
    FloatUnsafe,     \* types with a float field lacking the opt-in
    Threads,         \* callers
    Calls,           \* the registration and Seal calls they may make
    NoCall,          \* the call of a thread that has made none
    NoInfo, None

VARIABLES
    sealed,    \* the latch
    names,     \* [Concretes -> Names \cup {None}]: the registered name
    prio,      \* [Interfaces -> NoInfo \cup SUBSET disfixes]: the priority
    halted,    \* a registration has failed and stopped the program
    call       \* [Threads -> [op, done, res]]: each thread's latest call

catalog == <<sealed, names, prio, halted>>
vars == <<catalog, call>>

Disfixes == {DisfixOfName[n] : n \in Names}

\* Registered concrete types implementing i, with the prefix of name n.
SamePrefix(i, n) ==
    {c \in Concretes : names[c] # None /\ i \in Implements[c]
                       /\ PrefixOfName[names[c]] = PrefixOfName[n]}

\* Priority p leaves two implementers of i with one prefix unresolved.
Conflicting(i, p) ==
    \E c1 \in Concretes :
        /\ names[c1] # None /\ i \in Implements[c1]
        /\ \E c2 \in SamePrefix(i, names[c1]) \ {c1} :
              {DisfixOfName[names[c1]], DisfixOfName[names[c2]]} \notin SUBSET p

\* Registering c as n would leave an unresolved conflict in a registered
\* interface c implements.
NewConflict(c, n) ==
    \E i \in Implements[c] :
        /\ prio[i] # NoInfo
        /\ SamePrefix(i, n) \ {c} # {}
        /\ {DisfixOfName[n]} \cup {DisfixOfName[names[c2]] : c2 \in SamePrefix(i, n) \ {c}}
               \notin SUBSET prio[i]

\* c is new and its name (so its disfix) already belongs to another type.
Taken(c, n) ==
    /\ names[c] = None
    /\ \E c2 \in Concretes : names[c2] # None
                             /\ DisfixOfName[names[c2]] = DisfixOfName[n]

\* The call o fails.
Fails(o) ==
    \/ sealed
    \/ /\ o.kind = "RegisterInterface"
       /\ Conflicting(o.iface, {DisfixOfName[n] : n \in o.prio})
    \/ /\ o.kind = "RegisterConcrete"
       /\ \/ o.form \notin SupportedForms \/ o.type \in FloatUnsafe
          \/ NewConflict(o.type, o.name) \/ Taken(o.type, o.name)

\* The effect of the call o when it does not fail: registering an
\* interface or a type that is already registered changes nothing.
Effect(o) ==
    IF o.kind = "RegisterInterface"
    THEN /\ prio' = IF prio[o.iface] # NoInfo THEN prio
                    ELSE [prio EXCEPT ![o.iface] = {DisfixOfName[n] : n \in o.prio}]
         /\ UNCHANGED names
    ELSE /\ names' = IF names[o.type] # None THEN names
                     ELSE [names EXCEPT ![o.type] = o.name]
         /\ UNCHANGED prio

Registration == {o \in Calls : o.kind \in {"RegisterInterface", "RegisterConcrete"}}

Finish(t, r) == call' = [call EXCEPT ![t] = [@ EXCEPT !.done = TRUE, !.res = r]]

\* Thread t asks for registration o.
Request(t, o) ==
    /\ ~halted /\ call[t].done /\ ~sealed
    /\ call' = [call EXCEPT ![t] = [op |-> o, done |-> FALSE, res |-> "none"]]
    /\ UNCHANGED catalog

\* The registration takes effect, or fails, in one atomic step.
Complete(t) ==
    /\ ~halted /\ ~call[t].done
    /\ IF Fails(call[t].op)
       THEN halted' = TRUE /\ Finish(t, "panic") /\ UNCHANGED <<sealed, names, prio>>
       ELSE Effect(call[t].op) /\ Finish(t, "ok") /\ UNCHANGED <<sealed, halted>>

\* A registration asked for on a sealed catalog fails at once.
Reject(t, o) ==
    /\ ~halted /\ call[t].done /\ sealed
    /\ call' = [call EXCEPT ![t] = [op |-> o, done |-> TRUE, res |-> "panic"]]
    /\ halted' = TRUE
    /\ UNCHANGED <<sealed, names, prio>>

Seal(t, o) ==
    /\ ~halted /\ call[t].done /\ o.kind = "Seal"
    /\ sealed' = TRUE
    /\ call' = [call EXCEPT ![t] = [op |-> o, done |-> TRUE, res |-> "ok"]]
    /\ UNCHANGED <<names, prio, halted>>

Init ==
    /\ sealed = FALSE
    /\ names = [c \in Concretes |-> None]
    /\ prio = [i \in Interfaces |-> NoInfo]
    /\ halted = FALSE
    /\ call = [t \in Threads |-> [op |-> NoCall, done |-> TRUE, res |-> "none"]]

Next ==
    \E t \in Threads :
        \/ \E o \in Registration : Request(t, o) \/ Reject(t, o)
        \/ Complete(t)
        \/ \E o \in Calls : Seal(t, o)

Spec == Init /\ [][Next]_vars

=============================================================================
