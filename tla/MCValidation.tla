---------------------------- MODULE MCValidation ----------------------------
(* Manifests for Validation: every small machine alone, well formed or not, *)
(* and manifests of up to three machines of each kind of verdict.           *)
EXTENDS Validation

CONSTANTS a, b, c, bad,
          MaxAny,   \* most transitions of a machine that may be malformed
          MaxSound  \* most transitions of a machine over declared states

UpTo(S, k) == UNION {[1 .. n -> S] : n \in 0 .. k}
Edges(S) == [from : S, to : S, guard : {NoText}]
Vars(S) == [name : S, init : {"0"}]

MCNames == {a, b, c, bad}
MCLegalNames == {a, b, c}
MCText == {NoText, "0", "p"} \cup valid_kinds

Config(n, ss, i, ts, vs) ==
    [name |-> n, states |-> ss, initial_state |-> i, transitions |-> ts, variables |-> vs]

\* Malformed or not: names that are repeated, missing or illegal.
AnyMachine ==
    {Config(a, ss, i, ts, << >>) : ss \in UpTo({a, b}, 2) \cup {<<a, bad>>}, i \in {a, b},
                                   ts \in UpTo(Edges({a, b, c}), MaxAny)}
BadNames == {Config(n, <<a>>, a, << >>, vs) : n \in {a, bad}, vs \in UpTo(Vars({b, bad}), 2)}
\* Structurally sound, so that the search runs to its end.
SoundMachine ==
    {Config(a, <<a, b, c>>, a, ts, << >>) : ts \in UpTo(Edges({a, b, c}), MaxSound)}

\* One machine of each verdict and each reason for it.
E(f, t) == [from |-> f, to |-> t, guard |-> NoText]
Sample ==
    {Config(a, <<a, b>>, a, <<E(a, b)>>, << >>),             \* accepted
     Config(b, <<a, b, c>>, b, <<E(b, c), E(c, a)>>, << >>),  \* accepted, another start
     Config(b, <<a, b>>, a, <<E(b, a)>>, << >>),             \* b cannot be reached
     Config(c, <<a, bad>>, a, <<E(a, bad)>>, << >>),         \* no identifier
     Config(c, <<a, a>>, a, << >>, << >>),                   \* a twice
     Config(c, <<a>>, a, <<E(a, c)>>, << >>)}                \* c is not declared

Man(ms, ps) == [project |-> "p", state_machines |-> ms, properties |-> ps]
Property(n, k, f) == [name |-> n, kind |-> k, formula |-> f]
Good == Property("p", "safety", "p")
PropertyLists ==
    {<<Good>>, <<Good, Good>>, <<Good, Property("p", "p", "p")>>,
     <<Property(NoText, "safety", "p")>>, <<Property("p", "liveness", NoText), Good>>}
Plain == Config(a, <<a, b>>, a, <<E(a, b)>>, << >>)

MCManifests ==
    {Man(<<m>>, << >>) : m \in AnyMachine \cup BadNames \cup SoundMachine}
      \cup {Man(ms, << >>) : ms \in UpTo(Sample, 3)}
      \cup {Man(ms, ps) : ms \in UpTo(Sample, 1), ps \in PropertyLists}
      \cup {[Man(<<Plain>>, << >>) EXCEPT !.project = NoText]}
MCMachines == {to_abi(Plain)}
==============================================================================
