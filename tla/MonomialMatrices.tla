----------------------------- MODULE MonomialMatrices -----------------------------
(***************************************************************************)
(* What a matrix system promises of its monomial matrices: each call       *)
(* appends the matrix that its words make, element for element the moment  *)
(* of a word with a factor, whatever names the symbol table gives to       *)
(* moments and however many threads made it. The moments of the matrix and *)
(* their conjugates have a name before the matrix is there, and keep one.  *)
(***************************************************************************)
EXTENDS Integers, Sequences

CONSTANTS Value(_, _),         \* a factor times a moment, in a normal form
          NormalFactor(_, _)   \* the factor of a matrix of words: one, if all are zero

VARIABLES context,   \* the scenario: its words, the matrices that can be asked for
          known,     \* hashes of the moments that have a symbol
          matrices,  \* the matrices: words, factor, and their elements
          pending    \* the call that has registered its words, or none

None == <<>>

Moment(seq) == IF context.aliases THEN context.moment[seq] ELSE seq

Made(words, factor) ==
  [words |-> words, factor |-> NormalFactor(words, factor),
   elements |-> [c \in DOMAIN words |-> Value(factor, Moment(words[c]))]]

MomentsOf(words) ==
  {Moment(words[c]).hash : c \in DOMAIN words} \cup {context.conjugate[Moment(words[c])].hash : c \in DOMAIN words}

Product(f, g) == <<f[1] * g[1] - f[2] * g[2], f[1] * g[2] + f[2] * g[1]>>

\* What can be asked for: a matrix of the scenario, or a product.
Times(words, seq, left) ==
  [c \in DOMAIN words |-> IF left THEN context.product[<<seq, words[c]>>] ELSE context.product[<<words[c], seq>>]]

Asked(words, factor) ==
  \/ words \in context.given /\ factor = <<1, 0>>
  \/ \E n \in DOMAIN matrices, hash \in known, left \in BOOLEAN, f \in context.factors :
        /\ words = Times(matrices[n].words, [hash |-> hash, sign |-> 0], left)
        /\ factor = NormalFactor(words, Product(matrices[n].factor, f))

Init == known = {0, 1} /\ matrices = <<>> /\ pending = None

\* Moments can get names for themselves.
Learn == known \subseteq known' /\ UNCHANGED <<context, matrices, pending>>

\* A call with one thread, or one that has nothing to compute.
CompleteAtOnce(words, factor) ==
  /\ pending = None /\ pending' = None
  /\ Asked(words, factor)
  /\ known' = known \cup MomentsOf(words)
  /\ matrices' = Append(matrices, Made(words, factor))
  /\ UNCHANGED context

Register(words, factor) ==
  /\ pending = None
  /\ Asked(words, factor)
  /\ known' = known \cup MomentsOf(words)
  /\ pending' = <<words, factor>>
  /\ UNCHANGED <<context, matrices>>

Complete ==
  /\ pending # None /\ pending' = None
  /\ matrices' = Append(matrices, Made(pending[1], pending[2]))
  /\ UNCHANGED <<context, known>>

\* The words of a step are those it leaves in the new state.
Next ==
  \/ Learn
  \/ pending' # None /\ Register(pending'[1], pending'[2])
  \/ Complete
  \/ Len(matrices') > Len(matrices)
       /\ LET new == matrices'[Len(matrices')] IN CompleteAtOnce(new.words, new.factor)

Spec == Init /\ [][Next]_<<context, known, matrices, pending>>
=============================================================================
