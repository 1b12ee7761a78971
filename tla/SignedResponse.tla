--------------------------- MODULE SignedResponse ---------------------------
(*****************************************************************************)
(* The signed-response statistics of a pair of outputs and the gates on them *)
(* (five contracts compute them, each in its own way): two clean outputs, or *)
(* one counted twice, an output driven one way and one driven the other way, *)
(* and the odd response a transfer estimate predicts.  Outputs are small     *)
(* integer vectors, and every threshold is compared in exact arithmetic: all *)
(* centred vectors are taken twice, so the mean of two clean outputs stays   *)
(* whole, and norms are compared by their squares.                           *)
(*****************************************************************************)
EXTENDS Integers, FiniteSets

CONSTANTS
    Dim,           \* dimension of an output (256, 528, or a full array)
    FirstClean,    \* sets of vectors the outputs are taken from
    SecondClean,
    Driven,
    Predictions,
    Offsets,       \* common offsets of all outputs of a run
    NoiseFloor     \* the smallest clean distance reckoned with, squared

Axis == 1 .. Dim
Vector == [Axis -> Int]

VectorsAssumption ==
    /\ Dim \in Nat
    /\ FirstClean \cup SecondClean \cup Driven \cup Predictions \cup Offsets
          \subseteq Vector
    /\ NoiseFloor \in Nat \ {0}

VARIABLES out,        \* the outputs of one pair
          predicted   \* the odd response predicted for it, taken twice

vars == <<out, predicted>>

Ids == {"clean_a", "clean_b", "positive", "negative"}

Plus(u, v) == [i \in Axis |-> u[i] + v[i]]
Scale(k, v) == [i \in Axis |-> k * v[i]]
Minus(u, v) == Plus(u, Scale(-1, v))

Dot(u, v) == LET Sum[i \in 0 .. Dim] == IF i = 0 THEN 0 ELSE Sum[i - 1] + u[i] * v[i]
             IN Sum[Dim]

Square(v) == Dot(v, v)

----------------------------------------------------------------------------
(* Statistics from the arrays                                               *)

Intercept(o) == Plus(o["clean_a"], o["clean_b"])

PlusCentred(o) == Minus(Scale(2, o["positive"]), Intercept(o))
MinusCentred(o) == Minus(Scale(2, o["negative"]), Intercept(o))

\* plus, minus: squared norms of the centred outputs, times 4; odd, common: of the odd
\* and the common response, times 16; inner: of one against the other reversed, times
\* 4; noise: of the distance of the clean outputs.
Direct(o) ==
    LET p == PlusCentred(o)
        n == MinusCentred(o)
    IN [plus |-> Square(p), minus |-> Square(n), odd |-> Square(Minus(p, n)),
        common |-> Square(Plus(p, n)), inner |-> -Dot(p, n),
        noise |-> Square(Minus(o["clean_a"], o["clean_b"]))]

\* With one clean output.
Single(o) == Direct([o EXCEPT !["clean_b"] = o["clean_a"]])

----------------------------------------------------------------------------
(* Statistics from the Gram matrix of the outputs                           *)

Gram(o) == [i \in Ids |-> [j \in Ids |-> Dot(o[i], o[j])]]

Sum4(f) == f["clean_a"] + f["clean_b"] + f["positive"] + f["negative"]

Form(c, gram, d) ==
    Sum4([i \in Ids |-> Sum4([j \in Ids |-> c[i] * gram[i][j] * d[j]])])

Coefficient(side) ==
    [i \in Ids |-> IF i = side THEN 2 ELSE IF i \in {"clean_a", "clean_b"} THEN -1 ELSE 0]

FromGram(gram) ==
    LET p == Coefficient("positive")
        n == Coefficient("negative")
        odd == [i \in Ids |-> p[i] - n[i]]
        common == [i \in Ids |-> p[i] + n[i]]
        clean == [i \in Ids |-> CASE i = "clean_a" -> 1 [] i = "clean_b" -> -1
                                  [] OTHER -> 0]
    IN [plus |-> Form(p, gram, p), minus |-> Form(n, gram, n),
        odd |-> Form(odd, gram, odd), common |-> Form(common, gram, common),
        inner |-> -Form(p, gram, n), noise |-> Form(clean, gram, clean)]

----------------------------------------------------------------------------
(* Gates.  A statistic whose denominator is zero is None, and fails its test. *)

\* Cosine of one centred output with the other reversed at least 0.9.
Antisymmetric(s) ==
    /\ s.plus * s.minus > 0 /\ s.inner >= 0
    /\ 100 * s.inner * s.inner >= 81 * s.plus * s.minus

\* |plus + minus| at most a quarter of |plus| + |minus|.
SmallResidual(s) ==
    LET rest == 16 * s.common - s.plus - s.minus
    IN /\ s.plus + s.minus > 0
       /\ rest <= 0 \/ rest * rest <= 4 * s.plus * s.minus

\* The common response at most half the odd one.
OddDominates(s) == s.odd > 0 /\ 4 * s.common <= s.odd

SignedReady(s) == Antisymmetric(s) /\ SmallResidual(s) /\ OddDominates(s)

\* Gate A asks for no bound on the common response, but for an odd response of three
\* times the noise.
LargestOf(a, b) == IF a >= b THEN a ELSE b

AboveNoise(s) == s.odd >= 36 * LargestOf(s.noise, NoiseFloor)

\* The observed odd response, taken twice, against its prediction: cosine at least
\* 0.9, error at most half.
TransferReady(odd, guess) ==
    LET inner == Dot(odd, guess)
    IN /\ inner > 0 /\ 100 * inner * inner >= 81 * Square(odd) * Square(guess)
       /\ 4 * Square(Minus(odd, guess)) <= Square(odd)

\* Gate 0 of the frame state: a statistic without a value raises instead of failing.
GateZero(o, guess) ==
    LET s == Direct(o)
    IN IF s.plus = 0 \/ s.minus = 0 \/ s.odd = 0
       THEN "raises"
       ELSE IF /\ SignedReady(s) /\ AboveNoise(s)
               /\ TransferReady(Minus(o["positive"], o["negative"]), guess)
            THEN "ready" ELSE "not_ready"

----------------------------------------------------------------------------
(* Outputs of one pair, and changes of them that no gate may notice          *)

Init ==
    /\ \E a \in FirstClean, b \in SecondClean, p \in Driven, n \in Driven :
          out = [i \in Ids |-> CASE i = "clean_a" -> a [] i = "clean_b" -> b
                                 [] i = "positive" -> p [] i = "negative" -> n]
    /\ predicted \in Predictions

\* All outputs of another content: the same offset on each.
Shift(v) ==
    /\ out["clean_a"] \in FirstClean
    /\ out' = [i \in Ids |-> Plus(out[i], v)]
    /\ UNCHANGED predicted

\* The carrier's sign is turned round.
Reverse ==
    /\ out["clean_a"] \in FirstClean
    /\ out' = [out EXCEPT !["positive"] = out["negative"], !["negative"] = out["positive"]]
    /\ predicted' = Scale(-1, predicted)

\* The clean outputs are generated in the other order.
Reorder ==
    /\ out["clean_a"] \in FirstClean
    /\ out' = [out EXCEPT !["clean_a"] = out["clean_b"], !["clean_b"] = out["clean_a"]]
    /\ UNCHANGED predicted

Next == Reverse \/ Reorder \/ \E v \in Offsets : Shift(v)

Spec == Init /\ [][Next]_vars

----------------------------------------------------------------------------
\* The statistics from the Gram matrix of the full arrays are those of the arrays, for
\* one clean output and for two.
GramAgrees ==
    /\ FromGram(Gram(out)) = Direct(out)
    /\ FromGram(Gram([out EXCEPT !["clean_b"] = out["clean_a"]])) = Single(out)

\* The verdicts are of the carrier alone: not of the content all outputs share, nor of
\* the sign convention, nor of the order of the clean outputs.
VerdictIsOfCarrier ==
    [][/\ SignedReady(Direct(out')) = SignedReady(Direct(out))
       /\ GateZero(out', predicted') = GateZero(out, predicted)]_vars

\* The bound on the residual already keeps the common response under half the odd one,
\* as long as there is one: the third test of the gate never decides alone.
ResidualDecides == SmallResidual(Direct(out)) => OddDominates(Direct(out))

\* Gate 0 ready: the predicted direction tells each driven output from each clean
\* output, not only from their mean.
ReadyIsReadable ==
    GateZero(out, predicted) = "ready" =>
        \A c \in {"clean_a", "clean_b"} :
            /\ Dot(predicted, Minus(out["positive"], out[c])) > 0
            /\ Dot(predicted, Minus(out["negative"], out[c])) < 0
=============================================================================
