-------------------------- MODULE MetricsRegistry --------------------------
(***************************************************************************)
(* metrics_registry.go: NewHistogram, NewCounter and NewGauge reserve a    *)
(* name under the registry's lock, ask the host's meter for the instrument *)
(* and give the name back when that fails. The lock is released by defer,  *)
(* a panic of the meter included.                                          *)
(***************************************************************************)
EXTENDS Naturals, Sequences, FiniteSets

CONSTANTS Callers, Names, Kinds,
          NoCaller,   \* the lock is free
          MaxCalls  \* bound: registrations each goroutine asks for

ASSUME NoCallerAssumption == NoCaller \notin Callers
ASSUME MaxCallsAssumption == MaxCalls \in Nat

VARIABLES configured,  \* the registry has a meter
          mu, names,
          at, want,    \* what each goroutine asks for: a name and a kind
          calls,
          instruments, \* history: the instruments handed out, in order
          refused,     \* history: the last refusal of each goroutine
          lost         \* history: names whose creation panicked

registryVars == <<configured, mu, names, at, want, calls, instruments, refused, lost>>

NoRefusal == [name |-> "none", why |-> "none"]

RegistryInit ==
  /\ configured \in BOOLEAN
  /\ mu = NoCaller /\ names = {}
  /\ at = [c \in Callers |-> "idle"]
  /\ want \in [Callers -> Names \X Kinds]
  /\ calls = [c \in Callers |-> 0]
  /\ instruments = <<>>
  /\ refused = [c \in Callers |-> NoRefusal]
  /\ lost = {}

Go(c, from, to) == at[c] = from /\ at' = [at EXCEPT ![c] = to]
Refuse(c, why) == refused' = [refused EXCEPT ![c] = [name |-> want[c][1], why |-> why]]

\* A constructor is called.
Ask(c, name, kind) ==
  /\ calls[c] < MaxCalls /\ calls' = [calls EXCEPT ![c] = @ + 1]
  /\ Go(c, "idle", "asking")
  /\ want' = [want EXCEPT ![c] = <<name, kind>>]
  /\ refused' = [refused EXCEPT ![c] = NoRefusal]
  /\ UNCHANGED <<configured, mu, names, instruments, lost>>

\* ErrMetricsRegistryNotConfigured, without the lock.
NotConfigured(c) ==
  /\ ~configured
  /\ Go(c, "asking", "idle") /\ Refuse(c, "not_configured")
  /\ UNCHANGED <<configured, mu, names, want, calls, instruments, lost>>

Lock(c) ==
  /\ configured /\ mu = NoCaller
  /\ Go(c, "asking", "locked") /\ mu' = c
  /\ UNCHANGED <<configured, names, want, calls, instruments, refused, lost>>

Unlock(c, from) == Go(c, from, "idle") /\ mu' = NoCaller

\* registerName: ErrDuplicateMetric.
Duplicate(c) ==
  /\ want[c][1] \in names
  /\ Unlock(c, "locked") /\ Refuse(c, "duplicate")
  /\ UNCHANGED <<configured, names, want, calls, instruments, lost>>

\* registerName: the name is reserved before the instrument exists.
RegisterName(c) ==
  /\ want[c][1] \notin names
  /\ Go(c, "locked", "creating")
  /\ names' = names \cup {want[c][1]}
  /\ UNCHANGED <<configured, mu, want, calls, instruments, refused, lost>>

\* The meter creates the instrument.
Create(c) ==
  /\ Unlock(c, "creating")
  /\ instruments' = Append(instruments, want[c])
  /\ UNCHANGED <<configured, names, want, calls, refused, lost>>

\* Mutant: the name of a failed creation stays reserved.
CreateFailsReserved(c) ==
  /\ Unlock(c, "creating") /\ Refuse(c, "creation")
  /\ UNCHANGED <<configured, names, want, calls, instruments, lost>>

\* It returns an error: the name is given back.
CreateFails(c) ==
  /\ Unlock(c, "creating") /\ Refuse(c, "creation")
  /\ names' = names \ {want[c][1]}
  /\ UNCHANGED <<configured, want, calls, instruments, lost>>

\* Mutant: the lock is released by a statement the panic skips.
CreatePanicsLocked(c) ==
  /\ Go(c, "creating", "idle") /\ UNCHANGED mu
  /\ lost' = lost \cup {want[c][1]}
  /\ UNCHANGED <<configured, names, want, calls, instruments, refused>>

\* It panics: the lock is released, the name is not given back.
CreatePanics(c) ==
  /\ Unlock(c, "creating")
  /\ lost' = lost \cup {want[c][1]}
  /\ UNCHANGED <<configured, names, want, calls, instruments, refused>>

Step(c) ==
  \/ NotConfigured(c) \/ Lock(c) \/ Duplicate(c) \/ RegisterName(c)
  \/ Create(c) \/ CreateFails(c) \/ CreatePanics(c)

RegistryNext == \E c \in Callers : Step(c) \/ \E name \in Names, kind \in Kinds : Ask(c, name, kind)

RegistrySpec == RegistryInit /\ [][RegistryNext]_registryVars

\* Goroutines run, and sync.Mutex does not starve a goroutine.
RegistryFairSpec == RegistrySpec /\ \A c \in Callers : WF_registryVars(Step(c)) /\ SF_registryVars(Lock(c))

-----------------------------------------------------------------------------
Registered == {instruments[i][1] : i \in DOMAIN instruments}

\* Every variable keeps its type; the lock is held exactly by the goroutine that
\* is inside it.
RegistryTypeOK ==
  /\ configured \in BOOLEAN /\ mu \in Callers \cup {NoCaller} /\ names \subseteq Names
  /\ at \in [Callers -> {"idle", "asking", "locked", "creating"}]
  /\ want \in [Callers -> Names \X Kinds] /\ calls \in [Callers -> 0..MaxCalls]
  /\ instruments \in Seq(Names \X Kinds) /\ lost \subseteq Names
  /\ refused \in [Callers -> [name : Names \cup {"none"},
                              why : {"none", "not_configured", "duplicate", "creation"}]]
  /\ \A c \in Callers : mu = c <=> at[c] \in {"locked", "creating"}

\* A name names one instrument, whatever kinds and goroutines ask for it.
OneInstrumentPerName ==
  \A i, j \in DOMAIN instruments : instruments[i][1] = instruments[j][1] => i = j

\* Outside the lock the reserved names are those of the instruments, and those
\* whose creation panicked: an error of the meter leaves the name free to retry.
NamesAreThoseRegistered == mu = NoCaller => names = Registered \cup lost

\* ErrDuplicateMetric is answered only for a name that was registered, or lost.
DuplicateIsRegistered ==
  \A c \in Callers : refused[c].why = "duplicate" => refused[c].name \in Registered \cup lost

\* The registry and the meter agree on the names, after every failure.
NamesAgree == RegistryTypeOK /\ OneInstrumentPerName /\ NamesAreThoseRegistered /\ DuplicateIsRegistered

\* Every registration is answered.
Answered == \A c \in Callers : at[c] = "asking" ~> at[c] = "idle"
=============================================================================
