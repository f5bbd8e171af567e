----------------------------- MODULE SelfTransfer -----------------------------
(***************************************************************************)
(* isSelfTransfer: does the holder of the beneficiary's account look like  *)
(* the holder of the user's PAN?  A name is what normalizeName leaves of   *)
(* it, a sequence of words without honorifics, and a word is a sequence of *)
(* letters.  Thresholds are percentages.  Constant-level.                  *)
(***************************************************************************)
EXTENDS Integers, Sequences, FiniteSetsExt, SequencesExt

CONSTANTS
    Blank,                \* the space between two words of a name
    TokenThreshold,       \* config.compliance.selfTransferTokenThreshold
    SimilarityThreshold   \* config.compliance.selfTransferSimilarityThreshold

Larger(a, b) == IF a >= b THEN a ELSE b

\* A word and an initial of it match.
WordsMatch(v, w) ==
    \/ v = w
    \/ Len(v) = 1 /\ w[1] = v[1]
    \/ Len(w) = 1 /\ v[1] = w[1]

\* How many words of one name the other has, out of the longer of the two.
SameWords(a, b) ==
    Cardinality({i \in DOMAIN a : \E j \in DOMAIN b : WordsMatch(a[i], b[j])})

\* levenshteinDistance, row by row of its matrix.
EditDistance(l, r) ==
    LET matrix[i \in 0 .. Len(l), j \in 0 .. Len(r)] ==
            IF i = 0 THEN j
            ELSE IF j = 0 THEN i
            ELSE Min({matrix[i - 1, j] + 1, matrix[i, j - 1] + 1,
                      matrix[i - 1, j - 1] + IF l[i] = r[j] THEN 0 ELSE 1})
    IN  matrix[Len(l), Len(r)]

\* The words of a name written with blanks between them.
Spelled(name) == FoldLeft(LAMBDA w, v : IF w = <<>> THEN v ELSE w \o <<Blank>> \o v,
                          <<>>, name)

\* The name check.  A name of which nothing is left matches nothing.
LooksAlike(a, b) ==
    LET longer == Larger(Len(Spelled(a)), Len(Spelled(b)))
    IN  /\ a # <<>> /\ b # <<>>
        /\ \/ a = b
           \/ 100 * SameWords(a, b) >= TokenThreshold * Larger(Len(a), Len(b))
           \/ 100 * (longer - EditDistance(Spelled(a), Spelled(b)))
                 >= SimilarityThreshold * longer
=============================================================================
