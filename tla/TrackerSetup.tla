---------------------------- MODULE TrackerSetup ----------------------------
(***************************************************************************)
(* genai/config.go, profile.go, contract.go, tracker.go: trackers and      *)
(* contracts constructed from one list of options. An option is a closure  *)
(* the caller keeps, and a profile holds slices the caller may write to at *)
(* any time. A slice is a cell of the heap; what it lists is one value.    *)
(***************************************************************************)
EXTENDS Naturals, Sequences

CONSTANTS Builds,       \* constructions sharing the options
          Profiles,     \* what the caller may write into its profile
          MaxOptions,   \* bound: options of the list
          Registrations \* instruments newMetricsHolder registers

ASSUME SetupAssumption == MaxOptions \in Nat /\ Registrations \in Nat

VARIABLES mine,      \* scalars of the caller's profile
          heap,      \* the dimension values each slice holds
          options,   \* options made so far, with what they captured
          config,    \* the configuration of each construction
          applied,   \* of each construction: options applied to it
          stage,     \* of each construction, or its answer
          registered,\* instruments a construction has registered
          copy       \* the slice Tracker.Profile returned to the caller

setupVars == <<mine, heap, options, config, applied, stage, registered, copy>>

Nothing == [cell |-> <<"none">>]
Caller == <<"caller">>
Default == <<"default">>
Captured(i) == <<"option", i>>
Owned(b) == <<"tracker", b>>
Returned(b) == <<"copy", b>>
Cells == {Caller, Default} \cup {Captured(i) : i \in 1..MaxOptions}
         \cup {Owned(b) : b \in Builds} \cup {Returned(b) : b \in Builds}

\* rawPayloadPolicy, hashPayloadPolicy, redactPayloadPolicy; and a policy of the host.
BuiltIn == {"raw", "hash", "redact"}
Policies == BuiltIn \cup {"host"}

ASSUME ProfilesAssumption ==
  \A p \in Profiles : p.declares \in Policies /\ p.allowRaw \in BOOLEAN

\* "invalid" stands for all that Profile.Validate refuses.
Values == {p.values : p \in Profiles} \cup {"default"}

defaultRecorderConfig ==
  [policy |-> "redact", records |-> FALSE, limits |-> TRUE,
   declares |-> "redact", allowRaw |-> FALSE, cell |-> Default]

SetupInit ==
  /\ \E p \in Profiles :
       /\ mine = [declares |-> p.declares, allowRaw |-> p.allowRaw]
       /\ heap = [c \in Cells |-> IF c = Caller THEN p.values ELSE "default"]
  /\ options = <<>>
  /\ config = [b \in Builds |-> defaultRecorderConfig] /\ applied = [b \in Builds |-> 0]
  /\ copy = [b \in Builds |-> Nothing]
  /\ stage = [b \in Builds |-> "idle"] /\ registered = [b \in Builds |-> 0]

-----------------------------------------------------------------------------
Fresh == Len(options) < MaxOptions /\ \A b \in Builds : stage[b] = "idle"

\* WithPayloadPolicy (of nothing, too), WithRawPayloads, WithPayloadByteLimit and
\* WithEventTextByteLimit (in bounds or not).
Give(o) ==
  /\ Fresh
  /\ options' = Append(options, o)
  /\ UNCHANGED <<mine, heap, config, applied, stage, registered, copy>>

PlainOptions ==
  {[kind |-> "policy", policy |-> p] : p \in Policies \cup {"none"}}
  \cup {[kind |-> "raw_payloads"]} \cup {[kind |-> "limit", valid |-> v] : v \in BOOLEAN}

\* asked: what the caller's profile lists when it is given (history).
ProfileOption(cell) ==
  [kind |-> "profile", declares |-> mine.declares, allowRaw |-> mine.allowRaw,
   cell |-> cell, asked |-> heap[Caller]]

\* Mutant: the option keeps the caller's slices.
GiveReference ==
  /\ Fresh
  /\ options' = Append(options, ProfileOption(Caller))
  /\ UNCHANGED <<mine, heap, config, applied, stage, registered, copy>>

\* WithProfile: a deep copy when the option is made.
GiveProfile ==
  /\ Fresh
  /\ options' = Append(options, ProfileOption(Captured(Len(options) + 1)))
  /\ heap' = [heap EXCEPT ![Captured(Len(options) + 1)] = heap[Caller]]
  /\ UNCHANGED <<mine, config, applied, stage, registered, copy>>

\* The caller writes to its profile, of which it gave snapshots.
ChangeProfile(p) ==
  /\ mine' = [declares |-> p.declares, allowRaw |-> p.allowRaw]
  /\ heap' = [heap EXCEPT ![Caller] = p.values]
  /\ UNCHANGED <<options, config, applied, stage, registered, copy>>

-----------------------------------------------------------------------------
\* What one option does to a configuration.
Applied(c, o) ==
  CASE o.kind = "profile" -> [c EXCEPT !.declares = o.declares, !.allowRaw = o.allowRaw, !.cell = o.cell]
    [] o.kind = "policy" /\ o.policy = "none" -> c
    [] o.kind = "policy" /\ o.policy = "host" -> [c EXCEPT !.policy = "host", !.records = TRUE]
    [] o.kind = "policy" /\ o.policy \in BuiltIn ->
         [c EXCEPT !.policy = o.policy, !.records = TRUE, !.declares = o.policy]
    [] o.kind = "raw_payloads" ->
         [c EXCEPT !.policy = "raw", !.records = TRUE, !.declares = "raw", !.allowRaw = TRUE]
    [] o.kind = "limit" -> [c EXCEPT !.limits = o.valid]

\* The loop of buildRecorderConfig: the options in their order.
ApplyOption(b) ==
  /\ stage[b] \in {"idle", "applying"} /\ applied[b] < Len(options)
  /\ applied' = [applied EXCEPT ![b] = @ + 1]
  /\ config' = [config EXCEPT ![b] = Applied(@, options[applied[b] + 1])]
  /\ stage' = [stage EXCEPT ![b] = "applying"]
  /\ UNCHANGED <<mine, heap, options, registered, copy>>

\* After it the profile is copied again.
Configure(b) ==
  /\ stage[b] \in {"idle", "applying"} /\ applied[b] = Len(options)
  /\ config' = [config EXCEPT ![b].cell = Owned(b)]
  /\ heap' = [heap EXCEPT ![Owned(b)] = heap[config[b].cell]]
  /\ stage' = [stage EXCEPT ![b] = "configured"]
  /\ UNCHANGED <<mine, options, applied, registered, copy>>

RawAllowed(c) == c.policy = "raw" => c.allowRaw
Declared(c) == c.policy \in BuiltIn => c.declares = c.policy

\* Mutant: the declaration is all that is looked at.
ValidUnasked(c) == c.limits /\ heap[c.cell] # "invalid" /\ Declared(c)

\* validateRecorderConfig: budgets, profile, the permission of raw, and that the
\* declared identity is the policy's; a policy of the host declares itself.
ValidConfig(c) == c.limits /\ heap[c.cell] # "invalid" /\ RawAllowed(c) /\ Declared(c)

Reach(b, next) ==
  /\ stage' = [stage EXCEPT ![b] = next]
  /\ UNCHANGED <<mine, heap, options, config, applied, registered, copy>>

RefuseConfig(b) == stage[b] = "configured" /\ ~ValidConfig(config[b]) /\ Reach(b, "refused")

\* NewContract: a snapshot of valid settings, without instruments.
Declare(b) == stage[b] = "configured" /\ ValidConfig(config[b]) /\ Reach(b, "contract")

\* NewTrackerFromProvider goes on with the instruments, one after the other.
Proceed(b) == stage[b] = "configured" /\ ValidConfig(config[b]) /\ Reach(b, "registering")

Register(b) ==
  /\ stage[b] = "registering" /\ registered[b] < Registrations
  /\ registered' = [registered EXCEPT ![b] = @ + 1]
  /\ UNCHANGED <<mine, heap, options, config, applied, stage, copy>>

\* The meter refuses an instrument: there is no tracker.
RegisterFails(b) ==
  stage[b] = "registering" /\ registered[b] < Registrations /\ Reach(b, "failed")

Deliver(b) ==
  stage[b] = "registering" /\ registered[b] = Registrations /\ Reach(b, "tracker")

-----------------------------------------------------------------------------
Ready(b) == stage[b] \in {"tracker", "contract"}

\* Mutant: the settings themselves are returned.
LendProfile(b) ==
  /\ Ready(b) /\ copy' = [copy EXCEPT ![b] = [cell |-> config[b].cell]]
  /\ UNCHANGED <<mine, heap, options, config, applied, stage, registered>>

\* Tracker.Profile, Contract.Profile: a detached copy.
CopyProfile(b) ==
  /\ Ready(b) /\ copy' = [copy EXCEPT ![b] = [cell |-> Returned(b)]]
  /\ heap' = [heap EXCEPT ![Returned(b)] = heap[config[b].cell]]
  /\ UNCHANGED <<mine, options, config, applied, stage, registered>>

\* The caller writes to the copy it was given.
ChangeCopy(b, v) ==
  /\ copy[b] # Nothing
  /\ heap' = [heap EXCEPT ![copy[b].cell] = v]
  /\ UNCHANGED <<mine, options, config, applied, stage, registered, copy>>

SetupNext ==
  \/ GiveProfile \/ \E o \in PlainOptions : Give(o)
  \/ \E p \in Profiles : ChangeProfile(p)
  \/ \E b \in Builds :
       \/ ApplyOption(b) \/ Configure(b) \/ RefuseConfig(b) \/ Declare(b) \/ Proceed(b)
       \/ Register(b) \/ RegisterFails(b) \/ Deliver(b)
       \/ CopyProfile(b) \/ \E v \in Values : ChangeCopy(b, v)

SetupSpec == SetupInit /\ [][SetupNext]_setupVars

-----------------------------------------------------------------------------
\* The last option that satisfies Is, or 0.
LastOf(Is(_)) ==
  LET found == {i \in DOMAIN options : Is(options[i])}
  IN IF found = {} THEN 0 ELSE CHOOSE i \in found : \A j \in found : j <= i

LastProfile == LastOf(LAMBDA o : o.kind = "profile")
LastRaw == LastOf(LAMBDA o : o.kind = "raw_payloads")

\* The caller's last word on raw payloads allows them.
Consented == LastRaw > LastProfile \/ (LastProfile > 0 /\ options[LastProfile].allowRaw)

Configs == [policy : Policies, records : BOOLEAN, limits : BOOLEAN, declares : Policies,
            allowRaw : BOOLEAN, cell : {Owned(b) : b \in Builds}]

\* Types; and a configuration has slices of its own.
SetupTypeOK ==
  /\ mine \in [declares : Policies, allowRaw : BOOLEAN]
  /\ heap \in [Cells -> Values] /\ Len(options) <= MaxOptions
  /\ applied \in [Builds -> 0..Len(options)]
  /\ stage \in [Builds -> {"idle", "applying", "configured", "registering", "refused", "failed", "contract", "tracker"}]
  /\ registered \in [Builds -> 0..Registrations]
  /\ \A b \in Builds :
       /\ stage[b] \notin {"idle", "applying"} => config[b] \in Configs /\ config[b].cell = Owned(b)
       /\ copy[b] \in {Nothing, [cell |-> Returned(b)]}

\* Raw content or references leave only when the caller allowed it, and under the
\* identity "raw": "Use this only when the caller has already handled privacy".
RawIsConsented ==
  \A b \in Builds : Ready(b) /\ config[b].policy = "raw" => Consented /\ config[b].declares = "raw"

\* A tracker's dimensions are those the profile listed when it was given, whatever
\* the caller writes since: "Constructors take a deep copy".
SettingsAreOwn ==
  \A b \in Builds : Ready(b) =>
    heap[config[b].cell] = IF LastProfile = 0 THEN "default" ELSE options[LastProfile].asked

\* Trackers and contracts made of the same options have the same settings, and
\* none is refused for what another was accepted with: "NewContract validates the
\* same options as the tracker without creating SDK instruments".
ConstructionsAgree ==
  \A a, b \in Builds : Ready(a) =>
    /\ stage[b] # "refused"
    /\ Ready(b) => [config[a] EXCEPT !.cell = Default] = [config[b] EXCEPT !.cell = Default]

\* What is constructed is what was asked for, and stays so.
SettingsAreAsAsked == SetupTypeOK /\ RawIsConsented /\ SettingsAreOwn /\ ConstructionsAgree
=============================================================================
