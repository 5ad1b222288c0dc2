---------------------------- MODULE KernelStreams ----------------------------
(***************************************************************************)
(* kernels.h seen from outside the array: what each kernel that an         *)
(* application loads makes of the streams its columns receive.  s[c] is    *)
(* what column c was given so far and the result what column c can have    *)
(* delivered.  Module Cgra decodes the tables and shows that the array     *)
(* computes these streams, whatever the timing of its neighbours.          *)
(***************************************************************************)
EXTENDS Integers, Sequences, SequencesExt, FiniteSetsExt, TLC

Columns == 0 .. 3

\* The words of a table that an application may change, by index: constant
\* operands (word 3 of a PE) and delays (word 4).
KernelWords ==
    [bypass    |-> <<>>, relu |-> <<>>, fft |-> <<>>, conv2d_1 |-> <<>>,
     conv2d_2  |-> [i \in {3, 23, 43} |-> IF i = 23 THEN 5 ELSE -1],
     dither    |-> <<>>,
     minsearch |-> [i \in {24, 39, 54, 69} |-> 100]]

KernelNames == DOMAIN KernelWords

\* The columns a kernel reads.
InputsOf ==
    [bypass   |-> Columns,   relu     |-> {0, 1, 3}, fft    |-> Columns,
     conv2d_1 |-> {0, 1, 2}, conv2d_2 |-> Columns,   dither |-> {0},
     minsearch |-> {0, 2}]

\* Operands pair up in order, so a stream is as long as its shortest source.
Paired(C, s) == Min({Len(s[c]) : c \in C})

\* What is said of each column, in their order.
ByColumn(p, q, r, t) ==
    [c \in Columns |-> IF c = 0 THEN p ELSE IF c = 1 THEN q ELSE IF c = 2 THEN r ELSE t]

Positive(x) == [i \in DOMAIN x |-> IF x[i] > 0 THEN x[i] ELSE 0]

Relu(s) == ByColumn(Positive(s[0]), <<>>, Positive(s[1]), Positive(s[3]))

\* One butterfly: columns 0 and 3 are the real and imaginary part that the
\* factor 7 - 3i turns, columns 1 and 2 those they are added to.  The real
\* results do not wait for the imaginary part in column 2, nor the imaginary
\* ones for the real part in column 1.
Fft(s) ==
    LET real == 1 .. Paired({0, 1, 3}, s)
        imag == 1 .. Paired({0, 2, 3}, s)
        re(i) == 7 * s[0][i] + 3 * s[3][i]
        im(i) == 7 * s[3][i] - 3 * s[0][i]
    IN  ByColumn([i \in real |-> s[1][i] - re(i)], [i \in real |-> s[1][i] + re(i)],
                 [i \in imag |-> s[2][i] - im(i)], [i \in imag |-> s[2][i] + im(i)])

\* One row of a filter, and one row added to what earlier rows gave.
Conv2d1(s) ==
    ByColumn(<<>>, <<>>, [i \in 1 .. Paired({0, 1, 2}, s) |-> -s[1][i]], <<>>)
Conv2d2(w, s) ==
    ByColumn(<<>>, <<>>, <<>>,
             [i \in 1 .. Paired(Columns, s) |->
                s[3][i] + w[3] * s[0][i] + w[23] * s[1][i] + w[43] * s[2][i]])

\* White above the threshold, black below; what a pixel got too much or too
\* little of is carried to the next.
Carry(w) ==
    LET carry[i \in 0 .. Len(w)] ==
            IF i = 0 THEN 0
            ELSE LET sum == w[i] + carry[i - 1]
                 IN  IF sum > 127 THEN sum - 255 ELSE sum
    IN  carry
Dither(s) ==
    LET carry == Carry(s[0])
    IN  ByColumn([i \in DOMAIN s[0] |-> IF s[0][i] + carry[i - 1] > 127 THEN 255 ELSE 0],
                 <<>>, <<>>, <<>>)

\* The smallest two words and their indices.  A result leaves when its PE has
\* fired as often as its delay says.  The token the PE starts with is the first
\* firing, so the last word of a stream of that length is not looked at.
MinSearch(w, s) ==
    LET n == Paired({0, 2}, s)
        found[i \in 0 .. n] ==
            IF i = 0 THEN [min |-> 50, at |-> 80, next |-> 50, next_at |-> 800]
            ELSE LET f == found[i - 1]
                     x == s[0][i]
                 IN  CASE x < f.min  -> [min |-> x, at |-> i - 1, next |-> f.min, next_at |-> f.at]
                       [] x >= f.min /\ x < f.next -> [f EXCEPT !.next = x, !.next_at = i - 1]
                       [] OTHER -> f
        When(delay, field) ==
            IF n >= delay - 1 THEN <<found[delay - 1][field]>> ELSE <<>>
    IN  ByColumn(When(w[24], "min"), When(w[39], "at"), When(w[54], "next_at"),
                 When(w[69], "next"))

\* What kernel k, with the words w, has made of s.
Outputs(k, w, s) ==
    CASE k = "bypass"    -> s
      [] k = "relu"      -> Relu(s)
      [] k = "fft"       -> Fft(s)
      [] k = "conv2d_1"  -> Conv2d1(s)
      [] k = "conv2d_2"  -> Conv2d2(w, s)
      [] k = "dither"    -> Dither(s)
      [] k = "minsearch" -> MinSearch(w, s)
      [] OTHER           -> ByColumn(<<>>, <<>>, <<>>, <<>>)
=============================================================================
