--------------------------- MODULE MCConformance ---------------------------
(* Two adapters, two recordings in a fixture, and int64 scaled down to 3 bits. *)
EXTENDS Conformance, TLC

Declare(bs, us) == [compatible |-> TRUE, boundaries |-> bs, units |-> us]
Incompatible == [compatible |-> FALSE, boundaries |-> {"model"}, units |-> {}]

\* The model's owner and the agent's; both of the model; none of the agent;
\* units that leave components out; a name that is not of the schema.
Plain == ("a1" :> Declare({"model"}, {})) @@ ("a2" :> Declare({"agent"}, {}))
SomeCompositions ==
  {Plain} \cup {("a1" :> Declare({"model"}, {})) @@ ("a2" :> d) :
                  d \in {Declare({"model", "agent"}, {}), Declare({}, {}), Incompatible, Declare({"unlisted"}, {})}}
  \cup {("a1" :> Declare({"model"}, {"input", "output"})) @@ ("a2" :> Declare({"agent"}, {}))}

SomeFixtures == {<<>>, <<"runs">>, <<"missing">>, <<"runs", "missing">>, <<"fails", "runs">>}

UsageOf(input, output, read, write, reasoning) ==
  [input |-> input, output |-> output, cacheRead |-> read, cacheWrite |-> write, reasoning |-> reasoning]

\* Nothing known; a call; its components counted short; a known zero; sums that
\* wrap below zero and sums that wrap above it; components that sum to the same.
Call == UsageOf(2, Unknown, 1, 1, Unknown)
SomeUsages ==
  {UsageOf(Unknown, Unknown, Unknown, Unknown, Unknown), Call, UsageOf(2, Unknown, 2, Unknown, Unknown),
   UsageOf(0, 0, Unknown, Unknown, Unknown), UsageOf(Unknown, Unknown, 3, 3, Unknown),
   UsageOf(Unknown, Unknown, 3, 3, 3), UsageOf(Unknown, Unknown, 1, 0, 0)}

SpanOf(u, named, status, messages, truncated) ==
  [usage |-> u, named |-> named, status |-> status, messages |-> messages, truncated |-> truncated]

\* Every usage on a plain span, and every other attribute on a span of the call.
SomeSpans ==
  {SpanOf(u, "chat", Absent, Absent, Absent) : u \in SomeUsages}
  \cup {SpanOf(Call, Absent, Absent, Absent, Absent)}
  \cup {SpanOf(Call, "chat", status, Absent, Absent) : status \in {"declared", "other"}}
  \cup {SpanOf(Call, "chat", Absent, messages, Absent) :
          messages \in {"known", "private", "redacted", "fingerprint", "malformed"}}
  \cup {SpanOf(Call, "chat", Absent, messages, "true") : messages \in {Absent, "redacted"}}

\* Compositions, policies and lists of fixtures do not meet in a check: each is
\* varied with the others plain.
MCInit ==
  /\ ConformanceInit
  /\ \/ policy = "redact" /\ fixtures = <<"runs">>
        /\ happened \in {Call, UsageOf(Unknown, Unknown, 3, 3, 3)}
     \/ declared = Plain /\ happened = Call /\ (policy = "redact" \/ fixtures = <<"runs">>)

MCSpec == MCInit /\ [][ConformanceNext]_conformanceVars
=============================================================================
