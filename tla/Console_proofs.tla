--------------------------- MODULE Console_proofs ---------------------------
(***************************************************************************)
(* Proofs that the screen of rpi-install is faithful, that it says "pi     *)
(* exited" only when a program that prints with printk is over, and that   *)
(* printed numbers read back, for every end marker, every text, number and *)
(* width of a word, any size of the FIFO and of the buffers, that of stdio *)
(* included, and any number of lost bytes.                                 *)
(*                                                                         *)
(* The loops of the code (the search of pi_done, printk_uart_putc over a   *)
(* text, the digits of output_num) are recursive functions.  What they     *)
(* compute is proved from the recursion itself: a solution exists, the     *)
(* function is one, and its values follow by induction, which is used in   *)
(* the form of a set of naturals that has 0 and every successor.           *)
(***************************************************************************)
EXTENDS Console, TLAPS, SequenceTheorems, NaturalsInduction, WellFoundedInduction

\* Induction: a set with 0 and the successor of every natural in it has them all.
LEMMA NatSets ==
    ASSUME NEW T, 0 \in T, \A n \in Nat : n \in T => n + 1 \in T
    PROVE  Nat \subseteq T
<1>. DEFINE R == OpToRel(LAMBDA x, y : x < y, Nat)
<1>1. IsWellFoundedOn(R, Nat)
  BY NatLessThanWellFounded DEF OpToRel
<1>. SUFFICES ASSUME Nat \ T # {} PROVE FALSE
  OBVIOUS
<1>2. PICK m \in Nat \ T : \A y \in Nat \ T : ~ (<<y, m>> \in R)
  <2>. HIDE DEF R
  <2>. QED BY <1>1, WFMin
<1>3. m \in Nat \ {0} /\ m - 1 \in Nat /\ m - 1 < m
  OBVIOUS
<1>4. m - 1 \notin T
  <2>. HIDE DEF R
  <2>. SUFFICES ASSUME m - 1 \in T PROVE FALSE
    OBVIOUS
  <2>. (m - 1) + 1 \in T
    BY <1>3
  <2>. QED BY <1>3
<1>5. <<m - 1, m>> \in R
  BY <1>3 DEF OpToRel
<1>. QED BY <1>2, <1>3, <1>4, <1>5

\* The iterations of a loop on a state in S.
Iterations(g, S, N) == g \in [1 .. N -> [S -> S]]

\* f is the run of the loop that starts with b and whose i-th iteration applies
\* g[i].
RunOf(f, b, g, S, N) ==
    f \in [0 .. N -> S] /\ f[0] = b /\ \A i \in 1 .. N : f[i] = g[i][f[i - 1]]

\* A recursion over 0 .. n whose step is a function has a solution.
LEMMA RecursionExists ==
    ASSUME NEW S, NEW b \in S, NEW N \in Nat, NEW g, Iterations(g, S, N)
    PROVE  \E f : RunOf(f, b, g, S, N)
<1>. USE DEF Iterations, RunOf
<1>. DEFINE P(n) == n <= N => \E f \in [0 .. n -> S] :
                       f[0] = b /\ \A i \in 1 .. n : f[i] = g[i][f[i - 1]]
            T == {n \in Nat : P(n)}
<1>1. 0 \in T
  <2>. DEFINE f0 == [i \in 0 .. 0 |-> b]
  <2>1. f0 \in [0 .. 0 -> S] /\ f0[0] = b /\ \A i \in 1 .. 0 : f0[i] = g[i][f0[i - 1]]
    OBVIOUS
  <2>. QED BY <2>1
<1>2. ASSUME NEW n \in Nat, n \in T PROVE n + 1 \in T
  <2>. SUFFICES ASSUME n + 1 <= N
                PROVE  \E f \in [0 .. n + 1 -> S] :
                          f[0] = b /\ \A i \in 1 .. n + 1 : f[i] = g[i][f[i - 1]]
    OBVIOUS
  <2>1. PICK f \in [0 .. n -> S] : f[0] = b /\ \A i \in 1 .. n : f[i] = g[i][f[i - 1]]
    BY <1>2
  <2>. DEFINE h == [i \in 0 .. n + 1 |-> IF i = n + 1 THEN g[n + 1][f[n]] ELSE f[i]]
  <2>2. h \in [0 .. n + 1 -> S]
    OBVIOUS
  <2>3. h[0] = b /\ \A i \in 1 .. n + 1 : h[i] = g[i][h[i - 1]]
    BY <2>1
  <2>. QED BY <2>2, <2>3
<1>3. N \in T
  <2>. HIDE DEF T
  <2>. QED BY <1>1, <1>2, NatSets
<1>. QED BY <1>3

\* An induction over 0 .. N.
LEMMA UpTo ==
    ASSUME NEW N \in Nat, NEW T, 0 \in T,
           \A n \in Nat : n < N /\ n \in T => n + 1 \in T
    PROVE  \A n \in 0 .. N : n \in T
<1>. DEFINE U == {n \in Nat : n <= N => n \in T}
<1>1. 0 \in U
  OBVIOUS
<1>2. \A n \in Nat : n \in U => n + 1 \in U
  OBVIOUS
<1>3. Nat \subseteq U
  <2>. HIDE DEF U
  <2>. QED BY <1>1, <1>2, NatSets
<1>. QED BY <1>3

\* Every value of a run that starts in S and whose steps stay in S is in S.
LEMMA RunTyped ==
    ASSUME NEW N \in Nat, NEW S, NEW h, h[0] \in S,
           \A i \in 1 .. N : h[i - 1] \in S => h[i] \in S
    PROVE  \A i \in 0 .. N : h[i] \in S
<1>. DEFINE T == {n \in Nat : h[n] \in S}
<1>1. 0 \in T
  OBVIOUS
<1>2. \A n \in Nat : n < N /\ n \in T => n + 1 \in T
  <2>. SUFFICES ASSUME NEW n \in Nat, n < N, h[n] \in S PROVE h[n + 1] \in S
    OBVIOUS
  <2>1. n + 1 \in 1 .. N /\ (n + 1) - 1 = n
    OBVIOUS
  <2>. QED BY <2>1
<1>3. \A n \in 0 .. N : n \in T
  <2>. HIDE DEF T
  <2>. QED BY <1>1, <1>2, UpTo
<1>. QED BY <1>3

-----------------------------------------------------------------------------
\* The marker is a text of at least two characters.
LEMMA MarkerTyped ==
    exit_string \in Seq(Char) /\ Len(exit_string) \in Nat /\ Len(exit_string) > 1
<1>1. exit_string \in Seq(Char) /\ Len(exit_string) > 1
  BY MarkerAssumption, Zenon
<1>. QED BY <1>1, SMT

\* One character of the search of pi_done.
Search(c, p) == IF p = Len(exit_string) THEN p
                ELSE IF c = exit_string[p + 1] THEN p + 1 ELSE 0

\* How much of the marker was seen, before each character of the buffer.
Searched(seen, s, pos) ==
    /\ seen \in [0 .. Len(s) -> 0 .. Len(exit_string)]
    /\ seen[0] = pos
    /\ \A i \in 1 .. Len(s) : seen[i] = Search(s[i], seen[i - 1])

\* pi_done runs the search over the whole buffer.
LEMMA PiDone ==
    ASSUME NEW s \in Seq(Char), NEW pos \in 0 .. Len(exit_string)
    PROVE  \E seen : Searched(seen, s, pos) /\ pi_done(s, pos) = seen[Len(s)]
<1>. DEFINE M == 0 .. Len(exit_string)
            N == Len(s)
            step(i, p) == Search(s[i], p)
            g == [i \in 1 .. N |-> [p \in M |-> step(i, p)]]
            Eq(f) == f = [i \in 0 .. N |-> IF i = 0 THEN pos ELSE step(i, f[i - 1])]
            c == CHOOSE f : Eq(f)
<1>0. N \in Nat /\ pos \in M /\ Len(exit_string) \in Nat
  BY MarkerTyped
<1>1. \A i \in 1 .. N, p \in M : step(i, p) \in M
  BY <1>0 DEF Search
<1>2. \E f : Eq(f)
  <2>. HIDE DEF M, N, step
  <2>1. Iterations(g, M, N)
    BY <1>1 DEF Iterations
  <2>2. PICK f : RunOf(f, pos, g, M, N)
    <3>. HIDE DEF g
    <3>. QED BY <1>0, <2>1, RecursionExists, Zenon
  <2>3. \A i \in 1 .. N : f[i - 1] \in M
    BY <1>0, <2>2 DEF RunOf
  <2>4. \A i \in 1 .. N : f[i] = step(i, f[i - 1])
    BY <2>2, <2>3 DEF RunOf
  <2>5. f = [i \in 0 .. N |-> f[i]] /\ f[0] = pos
    BY <2>2 DEF RunOf
  <2>6. \A i \in 0 .. N : f[i] = IF i = 0 THEN pos ELSE step(i, f[i - 1])
    <3>1. f[0] = pos
      BY <2>5
    <3>2. \A i \in 0 .. N : i = 0 \/ i \in 1 .. N
      BY <1>0
    <3>. QED BY <2>4, <3>1, <3>2
  <2>7. Eq(f)
    BY <2>5, <2>6
  <2>. QED BY <2>7
<1>3. Eq(c)
  <2>. HIDE DEF Eq
  <2>. QED BY <1>2, Zenon
<1>4. c[0] = pos /\ \A i \in 1 .. N : c[i] = step(i, c[i - 1])
  <2>. HIDE DEF c, N, step
  <2>. QED BY <1>0, <1>3
<1>5. \A i \in 0 .. N : c[i] \in M
  <2>. HIDE DEF c, M, N, step
  <2>. QED BY <1>0, <1>1, <1>4, RunTyped
<1>6. Searched(c, s, pos)
  <2>1. c \in [0 .. N -> M]
    <3>. HIDE DEF c, M, N, step
    <3>. QED BY <1>3, <1>5
  <2>. HIDE DEF c
  <2>. QED BY <2>1, <1>4 DEF Searched
<1>7. pi_done(s, pos) = c[N]
  BY DEF pi_done, Search
<1>. QED BY <1>6, <1>7

\* pi_done over a buffer: what is counted as seen ends with the buffer, and when
\* all of the marker is seen, its last two characters came one after the other.
LEMMA MarkerFound ==
    ASSUME NEW s \in Seq(Char), Len(s) > 0, NEW pos \in 0 .. Len(exit_string) - 1
    PROVE  LET L == Len(exit_string)
               p == pi_done(s, pos)
           IN  /\ p \in 0 .. L
               /\ p # L /\ p # 0 => s[Len(s)] = exit_string[p]
               /\ p = L => \E i \in 1 .. Len(s) :
                              /\ s[i] = exit_string[L]
                              /\ i > 1 => s[i - 1] = exit_string[L - 1]
                              /\ i = 1 => pos = L - 1
<1>. DEFINE L == Len(exit_string)
            N == Len(s)
<1>0. L \in Nat /\ L > 1 /\ N \in Nat /\ N > 0 /\ pos \in 0 .. L /\ pos # L
  BY MarkerTyped
<1>1. PICK f : Searched(f, s, pos) /\ pi_done(s, pos) = f[N]
  BY <1>0, PiDone
<1>2. /\ \A i \in 0 .. N : f[i] \in 0 .. L
      /\ f[0] = pos
      /\ \A i \in 1 .. N : f[i] = Search(s[i], f[i - 1])
  BY <1>1 DEF Searched
<1>3. \A i \in 1 .. N : f[i] # 0 /\ f[i - 1] # L =>
         f[i] = f[i - 1] + 1 /\ s[i] = exit_string[f[i]]
  <2>. HIDE DEF L, N
  <2>. SUFFICES ASSUME NEW i \in 1 .. N, f[i] # 0, f[i - 1] # L
                PROVE  f[i] = f[i - 1] + 1 /\ s[i] = exit_string[f[i]]
    OBVIOUS
  <2>1. f[i] = Search(s[i], f[i - 1])
    BY <1>2
  <2>. QED BY <2>1 DEF Search, L
<1>4. \A i \in 1 .. N : f[i] # L => f[i - 1] # L
  BY <1>2 DEF Search
<1>5. ASSUME f[N] = L
      PROVE  \E i \in 1 .. N : f[i] = L /\ f[i - 1] # L
  <2>. HIDE DEF L, N
  <2>. SUFFICES ASSUME \A i \in 1 .. N : f[i] = L => f[i - 1] = L PROVE FALSE
    OBVIOUS
  <2>1. \A i \in 1 .. N : f[i - 1] \in {f[k] : k \in 0 .. N} \ {L} => f[i] # L
    OBVIOUS
  <2>. DEFINE T == {n \in Nat : f[n] # L}
  <2>2. 0 \in T
    BY <1>0, <1>2
  <2>3. \A n \in Nat : n < N /\ n \in T => n + 1 \in T
    <3>. SUFFICES ASSUME NEW n \in Nat, n < N, f[n] # L PROVE f[n + 1] # L
      OBVIOUS
    <3>1. n + 1 \in 1 .. N /\ (n + 1) - 1 = n
      BY <1>0
    <3>. QED BY <3>1
  <2>4. \A n \in 0 .. N : n \in T
    <3>. HIDE DEF T
    <3>. QED BY <1>0, <2>2, <2>3, UpTo
  <2>. QED BY <1>0, <1>5, <2>4
<1>6. f[N] \in 0 .. L
  BY <1>0, <1>2
<1>7. ASSUME f[N] # L, f[N] # 0 PROVE s[N] = exit_string[f[N]]
  <2>. HIDE DEF L, N
  <2>. QED BY <1>0, <1>3, <1>4, <1>7
<1>8. ASSUME f[N] = L
      PROVE  \E i \in 1 .. N : /\ s[i] = exit_string[L]
                               /\ i > 1 => s[i - 1] = exit_string[L - 1]
                               /\ i = 1 => pos = L - 1
  <2>. HIDE DEF L, N
  <2>1. PICK i \in 1 .. N : f[i] = L /\ f[i - 1] # L
    BY <1>5, <1>8
  <2>2. f[i] # 0
    BY <1>0, <2>1
  <2>3. f[i] = f[i - 1] + 1 /\ s[i] = exit_string[L]
    BY <1>3, <2>1, <2>2
  <2>4. f[i - 1] \in 0 .. L
    BY <1>0, <1>2
  <2>5. f[i - 1] = L - 1 /\ f[i - 1] # 0
    BY <1>0, <2>1, <2>3, <2>4
  <2>6. i = 1 => pos = L - 1
    BY <1>2, <2>5
  <2>7. i > 1 => s[i - 1] = exit_string[L - 1]
    <3>. SUFFICES ASSUME i > 1 PROVE s[i - 1] = exit_string[L - 1]
      OBVIOUS
    <3>1. i - 1 \in 1 .. N
      BY <1>0
    <3>2. f[(i - 1) - 1] # L
      BY <1>4, <2>1, <3>1
    <3>. QED BY <1>3, <2>5, <3>1, <3>2
  <2>. QED BY <2>3, <2>6, <2>7
<1>. HIDE DEF L, N
<1>9. pi_done(s, pos) = f[N]
  BY <1>1
<1>10. /\ pi_done(s, pos) \in 0 .. L
       /\ pi_done(s, pos) # L /\ pi_done(s, pos) # 0 => s[N] = exit_string[pi_done(s, pos)]
  BY <1>6, <1>7, <1>9
<1>11. pi_done(s, pos) = L =>
         \E i \in 1 .. N : /\ s[i] = exit_string[L]
                           /\ i > 1 => s[i - 1] = exit_string[L - 1]
                           /\ i = 1 => pos = L - 1
  BY <1>8, <1>9, Zenon
<1>. QED BY <1>10, <1>11, Zenon DEF L, N

-----------------------------------------------------------------------------
\* What printk_uart_putc sends for one character.
Put(c) == IF c = "\n" THEN <<"\r", "\n">> ELSE <<c>>

\* The characters sent so far, before each character of the text.
Sending(f, text) ==
    /\ f \in [0 .. Len(text) -> Seq(Char)]
    /\ f[0] = <<>>
    /\ \A i \in 1 .. Len(text) : f[i] = f[i - 1] \o Put(text[i])

\* What is sent for a byte is a text.
LEMMA PutTyped ==
    ASSUME NEW c \in Char
    PROVE  Put(c) \in Seq(Char)
<1>1. {"\r", "\n"} \subseteq Char
  BY CharAssumption, Zenon
<1>. QED BY <1>1 DEF Put

\* printk_uart_putc, called for one character of the text after the other.
LEMMA PutcRun ==
    ASSUME NEW text \in Seq(Char)
    PROVE  \E f : Sending(f, text) /\ PutcUart(text) = f[Len(text)]
<1>. DEFINE N == Len(text)
            S == Seq(Char)
            step(i, q) == q \o Put(text[i])
            seqs == [i \in 1 .. N |-> Put(text[i])]
            g == [i \in 1 .. N |-> [q \in S |-> step(i, q)]]
<1>0. N \in Nat /\ <<>> \in S
  OBVIOUS
<1>1. \A i \in 1 .. N : Put(text[i]) \in S
  BY PutTyped
<1>2. \A i \in 1 .. N, q \in S : step(i, q) \in S
  BY <1>1
<1>3. PICK f : RunOf(f, <<>>, g, S, N)
  <2>. HIDE DEF S, N, step
  <2>1. Iterations(g, S, N)
    BY <1>2 DEF Iterations
  <2>. HIDE DEF g
  <2>. QED BY <1>0, <2>1, RecursionExists, Zenon
<1>4. \A i \in 0 .. N : f[i] \in S
  BY <1>3 DEF RunOf
<1>5. f[0] = <<>> /\ \A i \in 1 .. N : f[i] = step(i, f[i - 1])
  <2>. HIDE DEF S, N, step
  <2>1. \A i \in 1 .. N : f[i - 1] \in S
    BY <1>0, <1>4
  <2>. QED BY <1>3, <2>1 DEF RunOf
<1>6. f \in [0 .. N -> S]
  BY <1>3 DEF RunOf
<1>7. Sending(f, text)
  BY <1>5, <1>6 DEF Sending
<1>8. CASE N = 0
  <2>1. seqs = <<>> /\ Len(seqs) = 0
    BY <1>8
  <2>2. PutcUart(text) = seqs
    BY <1>8, <2>1 DEF PutcUart, FlattenSeq, Put
  <2>. QED BY <1>5, <1>7, <1>8, <2>1, <2>2
<1>9. CASE N # 0
  <2>. DEFINE Eq(h) == h = [i \in 1 .. N |-> IF i = 1 THEN seqs[i] ELSE h[i - 1] \o seqs[i]]
              h0 == [i \in 1 .. N |-> f[i]]
              c == CHOOSE h : Eq(h)
  <2>1. \A i \in 1 .. N : f[i] = IF i = 1 THEN seqs[i] ELSE f[i - 1] \o seqs[i]
    <3>. SUFFICES ASSUME NEW i \in 1 .. N
                  PROVE  f[i] = IF i = 1 THEN seqs[i] ELSE f[i - 1] \o seqs[i]
      OBVIOUS
    <3>1. f[i] = f[i - 1] \o seqs[i] /\ seqs[i] \in S
      BY <1>1, <1>5
    <3>2. CASE i = 1
      <4>1. f[i - 1] = <<>>
        BY <1>5, <3>2
      <4>. HIDE DEF seqs, N
      <4>. QED BY <3>1, <3>2, <4>1
    <3>. HIDE DEF seqs, N
    <3>. QED BY <3>1, <3>2
  <2>2. Eq(h0)
    <3>. HIDE DEF N, seqs
    <3>1. \A i \in 1 .. N : i # 1 => h0[i - 1] = f[i - 1]
      BY <1>0
    <3>2. \A i \in 1 .. N : f[i] = IF i = 1 THEN seqs[i] ELSE h0[i - 1] \o seqs[i]
      BY <2>1, <3>1
    <3>. HIDE DEF h0
    <3>3. h0 = [i \in 1 .. N |-> f[i]]
      BY DEF h0
    <3>. QED BY <3>2, <3>3
  <2>3. Eq(c)
    <3>1. \E h : Eq(h)
      BY <2>2, Zenon
    <3>. HIDE DEF Eq
    <3>. QED BY <3>1, Zenon
  <2>4. \A n \in 0 .. N : n > 0 => c[n] = f[n]
    <3>. DEFINE T == {n \in Nat : n > 0 => c[n] = f[n]}
    <3>. HIDE DEF c, N, seqs
    <3>1. 0 \in T
      OBVIOUS
    <3>2. \A n \in Nat : n < N /\ n \in T => n + 1 \in T
      <4>. SUFFICES ASSUME NEW n \in Nat, n < N, n > 0 => c[n] = f[n]
                    PROVE  c[n + 1] = f[n + 1]
        OBVIOUS
      <4>1. n + 1 \in 1 .. N /\ (n + 1) - 1 = n /\ (n + 1 = 1 <=> ~ (n > 0))
        BY <1>0
      <4>2. c[n + 1] = IF n + 1 = 1 THEN seqs[n + 1] ELSE c[n] \o seqs[n + 1]
        BY <2>3, <4>1
      <4>3. f[n + 1] = IF n + 1 = 1 THEN seqs[n + 1] ELSE f[n] \o seqs[n + 1]
        BY <2>1, <4>1
      <4>. QED BY <4>1, <4>2, <4>3
    <3>. HIDE DEF T
    <3>3. \A n \in 0 .. N : n \in T
      BY <1>0, <3>1, <3>2, UpTo
    <3>. QED BY <3>3 DEF T
  <2>5. Len(seqs) = N
    BY <1>0
  <2>6. PutcUart(text) = c[N]
    BY <1>9, <2>5 DEF PutcUart, FlattenSeq, Put
  <2>7. c[N] = f[N]
    <3>. HIDE DEF c, N
    <3>. QED BY <1>0, <1>9, <2>4
  <2>8. PutcUart(text) = f[Len(text)]
    <3>. HIDE DEF c
    <3>. QED BY <2>6, <2>7
  <2>. QED BY <1>7, <2>8
<1>. QED BY <1>8, <1>9

\* In what printk sends, a carriage return comes before every newline.
Lines(q) == \A j \in 1 .. Len(q) : q[j] = "\n" => j > 1 /\ q[j - 1] = "\r"

\* printk_uart_putc adds one character, and a carriage return before a newline.
LEMMA PutLines ==
    ASSUME NEW q \in Seq(Char), Lines(q), NEW c \in Char
    PROVE  q \o Put(c) \in Seq(Char) /\ Lines(q \o Put(c))
<1>1. Put(c) \in Seq(Char)
  BY PutTyped
<1>2. CASE c = "\n"
  <2>1. Put(c) = <<"\r", "\n">>
    BY <1>2 DEF Put
  <2>. QED BY <1>1, <2>1 DEF Lines
<1>3. CASE c # "\n"
  <2>1. Put(c) = <<c>>
    BY <1>3 DEF Put
  <2>. QED BY <1>1, <1>3, <2>1 DEF Lines
<1>. QED BY <1>2, <1>3

\* So it is for the whole text.
LEMMA PutcLines ==
    ASSUME NEW text \in Seq(Char)
    PROVE  PutcUart(text) \in Seq(Char) /\ Lines(PutcUart(text))
<1>. DEFINE S == {q \in Seq(Char) : Lines(q)}
            N == Len(text)
<1>0. N \in Nat /\ \A i \in 1 .. N : text[i] \in Char
  OBVIOUS
<1>1. PICK f : Sending(f, text) /\ PutcUart(text) = f[N]
  BY PutcRun
<1>2. <<>> \in S
  BY DEF Lines
<1>3. \A i \in 1 .. N : f[i - 1] \in S => f[i] \in S
  <2>. SUFFICES ASSUME NEW i \in 1 .. N, f[i - 1] \in S PROVE f[i] \in S
    OBVIOUS
  <2>1. f[i] = f[i - 1] \o Put(text[i])
    BY <1>1 DEF Sending
  <2>. QED BY <1>0, <2>1, PutLines
<1>4. \A i \in 0 .. N : f[i] \in S
  <2>1. f[0] \in S
    BY <1>1, <1>2 DEF Sending
  <2>. HIDE DEF S, N
  <2>. QED BY <1>0, <1>3, <2>1, RunTyped
<1>. QED BY <1>0, <1>1, <1>4

-----------------------------------------------------------------------------
\* The characters of base16_chars in output_num, and the bases it is called with.
DigitChars == Range(BASE16_CHARS)

Bases == {2, 10, 16}

\* The weights of the hexadecimal digits.
LEMMA Weights ==
    /\ HexDigits \in Nat \ {0}
    /\ Pow16[0] = 1
    /\ \A k \in 1 .. HexDigits : Pow16[k] = 16 * Pow16[k - 1]
    /\ \A k \in 0 .. HexDigits : Pow16[k] \in Nat \ {0}
<1>. DEFINE N == HexDigits
            S == Nat \ {0}
            g == [i \in 1 .. N |-> [p \in S |-> 16 * p]]
            Eq(f) == f = [k \in 0 .. N |-> IF k = 0 THEN 1 ELSE 16 * f[k - 1]]
            c == CHOOSE f : Eq(f)
<1>0. N \in Nat \ {0} /\ 1 \in S
  BY WordAssumption
<1>1. \A p \in S : 16 * p \in S
  OBVIOUS
<1>2. \E f : Eq(f)
  <2>1. Iterations(g, S, N)
    BY <1>1 DEF Iterations
  <2>. HIDE DEF S, N
  <2>2. PICK f : RunOf(f, 1, g, S, N)
    <3>. HIDE DEF g
    <3>. QED BY <1>0, <2>1, RecursionExists, Zenon
  <2>3. \A i \in 1 .. N : f[i - 1] \in S
    BY <1>0, <2>2 DEF RunOf
  <2>4. \A i \in 1 .. N : f[i] = 16 * f[i - 1]
    BY <2>2, <2>3 DEF RunOf
  <2>5. f = [i \in 0 .. N |-> f[i]] /\ f[0] = 1
    BY <2>2 DEF RunOf
  <2>6. \A i \in 0 .. N : f[i] = IF i = 0 THEN 1 ELSE 16 * f[i - 1]
    <3>1. f[0] = 1
      BY <2>5
    <3>2. \A i \in 0 .. N : i = 0 \/ i \in 1 .. N
      BY <1>0
    <3>. QED BY <2>4, <3>1, <3>2
  <2>7. Eq(f)
    BY <2>5, <2>6
  <2>. QED BY <2>7
<1>3. Eq(c)
  <2>. HIDE DEF Eq
  <2>. QED BY <1>2, Zenon
<1>4. Pow16 = c
  BY DEF Pow16
<1>5. Pow16[0] = 1 /\ \A k \in 1 .. N : Pow16[k] = 16 * Pow16[k - 1]
  <2>. HIDE DEF c, N
  <2>. QED BY <1>0, <1>3, <1>4
<1>6. \A k \in 0 .. N : Pow16[k] \in S
  <2>1. Pow16[0] \in S /\ \A k \in 1 .. N : Pow16[k - 1] \in S => Pow16[k] \in S
    BY <1>1, <1>5
  <2>. HIDE DEF c, N, S
  <2>. QED BY <1>0, <2>1, RunTyped
<1>. HIDE DEF c
<1>. QED BY <1>0, <1>5, <1>6

\* A word has at least one value.
LEMMA WordTyped ==
    WordValues \in Nat \ {0} /\ Word \subseteq Nat /\ 0 \in Word
<1>1. WordValues \in Nat \ {0}
  BY Weights DEF WordValues
<1>. QED BY <1>1 DEF Word

\* The digits are bytes, and there are sixteen of them.
LEMMA DigitCharsTyped ==
    /\ DigitChars \subseteq Char
    /\ \A i \in 1 .. 16 : BASE16_CHARS[i] \in DigitChars
<1>1. DigitChars \subseteq Char
  BY CharAssumption, Zenon DEF DigitChars
<1>2. \A i \in 1 .. 16 : BASE16_CHARS[i] \in DigitChars
  <2>1. DOMAIN BASE16_CHARS = 1 .. 16
    BY DEF BASE16_CHARS
  <2>. QED BY <2>1, Zenon DEF DigitChars, Range
<1>. QED BY <1>1, <1>2

\* Division by the base: the quotient is smaller, the remainder a digit.
LEMMA Divided ==
    ASSUME NEW b \in Bases, NEW k \in Nat
    PROVE  /\ k \div b \in Nat /\ (k % b) \in 0 .. b - 1
           /\ (k % b) + 1 \in 1 .. 16
           /\ k = (k \div b) * b + (k % b)
           /\ k \div b <= k
           /\ k \div b # 0 => k \div b < k
<1>1. CASE b = 2
  BY <1>1
<1>2. CASE b = 10
  BY <1>2
<1>3. CASE b = 16
  BY <1>3
<1>. QED BY <1>1, <1>2, <1>3 DEF Bases

\* The digits of k from those of smaller numbers.
DigitStep(f, b, k) ==
    <<BASE16_CHARS[(k % b) + 1]>> \o (IF k \div b = 0 THEN <<>> ELSE f[k \div b])

\* f has the digits of every number up to M.
DigitsUpTo(f, b, M) ==
    f \in [0 .. M -> Seq(DigitChars)] /\ \A k \in 0 .. M : f[k] = DigitStep(f, b, k)

\* One iteration of the loop adds a digit.
LEMMA DigitStepTyped ==
    ASSUME NEW b \in Bases, NEW k \in Nat, NEW f,
           k \div b = 0 \/ f[k \div b] \in Seq(DigitChars)
    PROVE  DigitStep(f, b, k) \in Seq(DigitChars)
<1>1. BASE16_CHARS[(k % b) + 1] \in DigitChars
  BY Divided, DigitCharsTyped
<1>2. (IF k \div b = 0 THEN <<>> ELSE f[k \div b]) \in Seq(DigitChars)
  OBVIOUS
<1>. QED BY <1>1, <1>2 DEF DigitStep

\* The do-while loop of output_num terminates: the recursion has a solution.
LEMMA DigitsExist ==
    ASSUME NEW b \in Bases, NEW M \in Nat
    PROVE  \E f : DigitsUpTo(f, b, M)
<1>. DEFINE T == {n \in Nat : \E f : DigitsUpTo(f, b, n)}
<1>1. 0 \in T
  <2>. DEFINE d == DigitStep(<<>>, b, 0)
              f == [i \in 0 .. 0 |-> d]
  <2>1. 0 \div b = 0
    BY Divided
  <2>2. d \in Seq(DigitChars)
    BY <2>1, DigitStepTyped
  <2>3. DigitStep(f, b, 0) = d
    BY <2>1 DEF DigitStep
  <2>. HIDE DEF d
  <2>4. f \in [0 .. 0 -> Seq(DigitChars)] /\ \A k \in 0 .. 0 : k = 0 /\ f[k] = d
    BY <2>2
  <2>5. DigitsUpTo(f, b, 0)
    <3>. HIDE DEF f
    <3>. QED BY <2>3, <2>4 DEF DigitsUpTo
  <2>. QED BY <2>5
<1>2. ASSUME NEW n \in Nat, n \in T PROVE n + 1 \in T
  <2>1. PICK f : DigitsUpTo(f, b, n)
    BY <1>2
  <2>. DEFINE d == DigitStep(f, b, n + 1)
              h == [i \in 0 .. n + 1 |-> IF i = n + 1 THEN d ELSE f[i]]
  <2>2. \A k \in 0 .. n : f[k] \in Seq(DigitChars) /\ f[k] = DigitStep(f, b, k)
    BY <2>1 DEF DigitsUpTo
  <2>3. d \in Seq(DigitChars)
    <3>1. (n + 1) \div b = 0 \/ (n + 1) \div b \in 0 .. n
      BY Divided
    <3>. QED BY <2>2, <3>1, DigitStepTyped
  <2>4. \A k \in 0 .. n + 1 : DigitStep(h, b, k) = DigitStep(f, b, k)
    <3>. SUFFICES ASSUME NEW k \in 0 .. n + 1
                  PROVE  DigitStep(h, b, k) = DigitStep(f, b, k)
      OBVIOUS
    <3>1. k \div b = 0 \/ k \div b \in 0 .. n
      BY Divided
    <3>2. k \div b # 0 => h[k \div b] = f[k \div b]
      <4>. HIDE DEF d
      <4>. QED BY <3>1
    <3>. HIDE DEF h
    <3>. QED BY <3>2 DEF DigitStep
  <2>. HIDE DEF d
  <2>5. h \in [0 .. n + 1 -> Seq(DigitChars)]
    BY <2>2, <2>3
  <2>6. \A k \in 0 .. n + 1 : h[k] = DigitStep(f, b, k)
    BY <2>2 DEF d
  <2>7. DigitsUpTo(h, b, n + 1)
    <3>. HIDE DEF h
    <3>. QED BY <2>4, <2>5, <2>6 DEF DigitsUpTo
  <2>. QED BY <2>7
<1>. HIDE DEF T
<1>3. M \in T
  BY <1>1, <1>2, NatSets
<1>. QED BY <1>3 DEF T

\* Induction over smaller numbers.
LEMMA StrongInduction ==
    ASSUME NEW T, \A n \in Nat : (\A m \in 0 .. n - 1 : m \in T) => n \in T
    PROVE  Nat \subseteq T
<1>. DEFINE U == {n \in Nat : \A m \in 0 .. n : m \in T}
<1>1. 0 \in U
  OBVIOUS
<1>2. \A n \in Nat : n \in U => n + 1 \in U
  <2>. SUFFICES ASSUME NEW n \in Nat, \A m \in 0 .. n : m \in T
                PROVE  \A m \in 0 .. n + 1 : m \in T
    OBVIOUS
  <2>1. (n + 1) - 1 = n /\ n + 1 \in Nat
    OBVIOUS
  <2>2. n + 1 \in T
    BY <2>1
  <2>. QED BY <2>2
<1>3. Nat \subseteq U
  <2>. HIDE DEF U
  <2>. QED BY <1>1, <1>2, NatSets
<1>. QED BY <1>3

\* output_num's buffer: the last digit first, then those of the quotient.
LEMMA BufferedIs ==
    ASSUME NEW b \in Bases, NEW n \in Word
    PROVE  /\ Buffered(b, n) \in Seq(DigitChars)
           /\ n \div b \in Word
           /\ Buffered(b, n) = <<BASE16_CHARS[(n % b) + 1]>>
                                   \o (IF n \div b = 0 THEN <<>> ELSE Buffered(b, n \div b))
<1>. DEFINE Eq(f) == f = [k \in Word |->
                            <<BASE16_CHARS[(k % b) + 1]>>
                                \o (IF k \div b = 0 THEN <<>> ELSE f[k \div b])]
            c == CHOOSE f : Eq(f)
<1>0. WordValues - 1 \in Nat /\ Word = 0 .. WordValues - 1
  BY WordTyped DEF Word
<1>1. \E f : Eq(f)
  <2>1. PICK f : DigitsUpTo(f, b, WordValues - 1)
    BY <1>0, DigitsExist
  <2>2. f = [k \in Word |-> f[k]]
    BY <1>0, <2>1 DEF DigitsUpTo
  <2>3. \A k \in Word : f[k] = <<BASE16_CHARS[(k % b) + 1]>>
                                   \o (IF k \div b = 0 THEN <<>> ELSE f[k \div b])
    BY <1>0, <2>1 DEF DigitsUpTo, DigitStep
  <2>4. Eq(f)
    BY <2>2, <2>3
  <2>. QED BY <2>4
<1>2. Eq(c)
  <2>. HIDE DEF Eq
  <2>. QED BY <1>1, Zenon
<1>3. \A k \in Word : Buffered(b, k) = c[k]
  BY DEF Buffered
<1>4. \A k \in Word : c[k] = DigitStep(c, b, k)
  <2>. HIDE DEF c
  <2>. QED BY <1>2 DEF DigitStep
<1>. HIDE DEF c
<1>5. \A k \in Word : k \div b \in Word
  BY <1>0, Divided
<1>6. \A k \in Word : c[k] \in Seq(DigitChars)
  <2>. DEFINE T == {k \in Nat : k \in Word => c[k] \in Seq(DigitChars)}
  <2>1. ASSUME NEW k \in Nat, \A m \in 0 .. k - 1 : m \in T, k \in Word
        PROVE  c[k] \in Seq(DigitChars)
    <3>1. k \div b = 0 \/ k \div b \in 0 .. k - 1
      BY Divided
    <3>2. k \div b = 0 \/ c[k \div b] \in Seq(DigitChars)
      BY <1>5, <2>1, <3>1
    <3>3. DigitStep(c, b, k) \in Seq(DigitChars)
      BY <3>2, DigitStepTyped
    <3>. QED BY <1>4, <2>1, <3>3
  <2>2. \A k \in Nat : (\A m \in 0 .. k - 1 : m \in T) => k \in T
    BY <2>1
  <2>3. Nat \subseteq T
    <3>. HIDE DEF T
    <3>. QED BY <2>2, StrongInduction
  <2>. QED BY <2>3, WordTyped
<1>7. c[n] = <<BASE16_CHARS[(n % b) + 1]>> \o (IF n \div b = 0 THEN <<>> ELSE c[n \div b])
  BY <1>4 DEF DigitStep
<1>. QED BY <1>3, <1>5, <1>6, <1>7

\* A text read backwards.
LEMMA Reversed ==
    ASSUME NEW S, NEW s \in Seq(S)
    PROVE  /\ Reverse(s) \in Seq(S) /\ Len(Reverse(s)) = Len(s)
           /\ \A i \in 1 .. Len(s) : Reverse(s)[i] = s[(Len(s) - i) + 1]
<1>. DEFINE r == [i \in 1 .. Len(s) |-> s[(Len(s) - i) + 1]]
<1>1. Len(s) \in Nat /\ \A i \in 1 .. Len(s) : s[(Len(s) - i) + 1] \in S
  OBVIOUS
<1>2. r \in Seq(S) /\ Len(r) = Len(s) /\ \A i \in 1 .. Len(s) : r[i] = s[(Len(s) - i) + 1]
  BY <1>1
<1>3. Reverse(s) = r
  BY DEF Reverse
<1>. HIDE DEF r
<1>. QED BY <1>2, <1>3

\* Every number has at least one digit.
LEMMA BufferedLen ==
    ASSUME NEW b \in Bases, NEW n \in Word
    PROVE  Len(Buffered(b, n)) \in Nat \ {0}
<1>. DEFINE d == BASE16_CHARS[(n % b) + 1]
            t == IF n \div b = 0 THEN <<>> ELSE Buffered(b, n \div b)
<1>1. Buffered(b, n) \in Seq(DigitChars) /\ Buffered(b, n) = <<d>> \o t
  BY BufferedIs
<1>2. t \in Seq(DigitChars) /\ d \in DigitChars
  <2>1. n \div b \in Word
    BY BufferedIs
  <2>2. Buffered(b, n \div b) \in Seq(DigitChars)
    BY <2>1, BufferedIs
  <2>3. n \in Nat
    BY WordTyped
  <2>4. (n % b) + 1 \in 1 .. 16
    BY <2>3, Divided
  <2>5. d \in DigitChars
    BY <2>4, DigitCharsTyped
  <2>. QED BY <2>2, <2>5
<1>. HIDE DEF d, t
<1>3. Len(<<d>> \o t) = Len(t) + 1
  BY <1>2
<1>. QED BY <1>1, <1>2, <1>3

\* UART_Send_Int sends digits, at least one.
LEMMA SendIntTyped ==
    ASSUME NEW n \in Word
    PROVE  UART_Send_Int(n) \in Seq(DigitChars) /\ Len(UART_Send_Int(n)) \in Nat \ {0}
<1>1. CASE n = 0
  <2>1. "0" \in DigitChars
    <3>1. BASE16_CHARS[1] = "0"
      BY DEF BASE16_CHARS
    <3>. QED BY <3>1, DigitCharsTyped
  <2>. QED BY <1>1, <2>1 DEF UART_Send_Int
<1>2. CASE n # 0
  <2>1. 10 \in Bases
    BY DEF Bases
  <2>2. Buffered(10, n) \in Seq(DigitChars) /\ Len(Buffered(10, n)) \in Nat \ {0}
    BY <2>1, BufferedIs, BufferedLen
  <2>3. /\ Reverse(Buffered(10, n)) \in Seq(DigitChars)
        /\ Len(Reverse(Buffered(10, n))) = Len(Buffered(10, n))
    BY <2>2, Reversed
  <2>. QED BY <1>2, <2>2, <2>3 DEF UART_Send_Int
<1>. QED BY <1>1, <1>2

\* The parts of ProgramsAssumption about every program.
LEMMA ProgramTyped ==
    ASSUME NEW p \in Programs
    PROVE  /\ p.text \in Seq(Char) /\ p.line \in Word
           /\ {p.raw, p.panics, p.asserts} \subseteq BOOLEAN
  BY ProgramsAssumption, Zenon

\* PANIC prints a newline only at its end, after a digit.
LEMMA PanicTyped ==
    ASSUME NEW n \in Word
    PROVE  LET q == Panic(<<>>, n)
           IN  /\ q \in Seq(Char)
               /\ \A j \in 1 .. Len(q) : q[j] = "\n" =>
                     j = Len(q) /\ j > 1 /\ q[j - 1] \in DigitChars
<1>. DEFINE d == UART_Send_Int(n)
            q == Panic(<<>>, n)
<1>1. d \in Seq(DigitChars) /\ Len(d) \in Nat \ {0}
  BY SendIntTyped
<1>2. DigitChars \subseteq Char /\ "P" \in Char /\ ":" \in Char /\ "\n" \in Char
  BY DigitCharsTyped, CharAssumption, Zenon
<1>3. d \in Seq(Char)
  BY <1>1, <1>2
<1>4. "\n" \notin DigitChars
  BY DEF DigitChars, Range, BASE16_CHARS
<1>5. q = <<"P">> \o <<>> \o <<":">> \o d \o <<"\n">>
  BY DEF Panic
<1>. HIDE DEF d, q
<1>6. q \in Seq(Char) /\ Len(q) = Len(d) + 3
  BY <1>2, <1>3, <1>5
<1>7. /\ q[1] = "P" /\ q[2] = ":"
      /\ \A j \in 1 .. Len(d) : q[j + 2] = d[j]
  BY <1>3, <1>5
<1>8. ASSUME NEW j \in 1 .. Len(q), q[j] = "\n"
      PROVE  j = Len(q) /\ j > 1 /\ q[j - 1] \in DigitChars
  <2>1. j # 1 /\ j # 2
    BY <1>7, <1>8
  <2>2. \A i \in 1 .. Len(d) : q[i + 2] \in DigitChars
    BY <1>1, <1>7
  <2>3. j \notin 3 .. Len(d) + 2
    <3>. SUFFICES ASSUME j \in 3 .. Len(d) + 2 PROVE FALSE
      OBVIOUS
    <3>1. j - 2 \in 1 .. Len(d) /\ (j - 2) + 2 = j
      BY <1>1
    <3>. QED BY <1>4, <1>8, <2>2, <3>1
  <2>4. j = Len(d) + 3
    BY <1>1, <1>6, <2>1, <2>3
  <2>5. Len(d) \in 1 .. Len(d) /\ Len(d) + 2 = j - 1
    BY <1>1, <2>4
  <2>. QED BY <1>1, <1>6, <2>2, <2>4, <2>5
<1>. QED BY <1>6, <1>8 DEF q

\* What is left of a byte that the terminal does not show.
Clean(c) == IF c \in {"\r", "NUL", BOOT_SUCCESS} THEN " " ELSE c

\* It is a byte, and not the one that ends a C string.
LEMMA CleanTyped ==
    ASSUME NEW c \in Char
    PROVE  Clean(c) \in Char /\ Clean(c) # "NUL"
<1>1. " " \in Char
  BY CharAssumption, Zenon
<1>. QED BY <1>1 DEF Clean

\* The last two characters of the marker.
LEMMA MarkerChars ==
    LET L == Len(exit_string)
    IN  /\ exit_string[L] = "\n"
        /\ \A i \in 1 .. L - 1 :
              /\ exit_string[i] \notin {"\n", "\r", "NUL", BOOT_SUCCESS, " "}
              /\ exit_string[i] \notin DigitChars
  BY MarkerAssumption, Zenon DEF DigitChars

\* What a program prints is a sequence of bytes.
LEMMA OutputTyped ==
    ASSUME NEW p \in Programs
    PROVE  Output(p) \in Seq(Char)
<1>1. PutcUart(p.text) \in Seq(Char)
  BY ProgramTyped, PutcLines
<1>2. Panic(<<>>, p.line) \in Seq(Char)
  BY ProgramTyped, PanicTyped, Zenon
<1>3. <<"\n", " ">> \in Seq(Char)
  <2>1. "\n" \in Char /\ " " \in Char
    BY CharAssumption, Zenon
  <2>2. \A x, y \in Char : <<x, y>> \in Seq(Char)
    OBVIOUS
  <2>. QED BY <2>1, <2>2
<1>4. Assertion(<<>>, p.line) \in Seq(Char)
  <2>. DEFINE q == Panic(<<>>, p.line)
              r == <<"\n", " ">>
  <2>1. q \in Seq(Char) /\ r \in Seq(Char)
    BY <1>2, <1>3
  <2>. HIDE DEF q, r
  <2>2. r \o q \in Seq(Char)
    BY <2>1
  <2>. QED BY <2>2 DEF Assertion, q, r
<1>. DEFINE a == IF p.raw THEN p.text ELSE PutcUart(p.text)
            z == CASE p.asserts -> Assertion(<<>>, p.line)
                   [] p.panics /\ ~ p.asserts -> Panic(<<>>, p.line)
                   [] OTHER -> exit_string
<1>5. a \in Seq(Char)
  BY <1>1, ProgramTyped
<1>6. z \in Seq(Char)
  <2>1. CASE p.asserts
    BY <1>4, <2>1
  <2>2. CASE p.panics /\ ~ p.asserts
    BY <1>2, <2>2
  <2>3. CASE ~ p.panics /\ ~ p.asserts
    <3>1. z = exit_string
      BY <2>3
    <3>. QED BY <3>1, MarkerTyped
  <2>. QED BY <2>1, <2>2, <2>3
<1>7. Output(p) = a \o z
  BY DEF Output
<1>. HIDE DEF a, z
<1>. QED BY <1>5, <1>6, <1>7

\* Of a program that prints by printk, only clean_reboot sends the last two
\* characters of the marker one after the other, as the last ones of all: in the
\* text of the program a carriage return stands before a newline, in PANIC a digit.
LEMMA OutputMarker ==
    ASSUME NEW p \in Programs, PrintsByPrintk(p), NEW j \in 2 .. Len(Output(p)),
           Clean(Output(p)[j]) = exit_string[Len(exit_string)],
           Clean(Output(p)[j - 1]) = exit_string[Len(exit_string) - 1]
    PROVE  ~ p.panics /\ j = Len(Output(p))
<1>. DEFINE L == Len(exit_string)
            a == PutcUart(p.text)
            z == IF p.panics THEN Panic(<<>>, p.line) ELSE exit_string
            o == Output(p)
            m == exit_string[L - 1]
<1>1. a \in Seq(Char) /\ Lines(a)
  BY ProgramTyped, PutcLines
<1>2. z \in Seq(Char)
  <2>1. Panic(<<>>, p.line) \in Seq(Char)
    BY ProgramTyped, PanicTyped, Zenon
  <2>. QED BY <2>1, MarkerTyped
<1>3. L \in Nat /\ L > 1 /\ L - 1 \in 1 .. L - 1
  BY MarkerTyped
<1>4. exit_string[L] = "\n" /\ \A i \in 1 .. L - 1 : exit_string[i] # "\n"
  BY MarkerChars
<1>5. m # " " /\ m \notin DigitChars
  BY <1>3, MarkerChars
<1>6. o = a \o z
  <2>1. ~ p.raw /\ ~ p.asserts
    BY DEF PrintsByPrintk
  <2>2. CASE p.panics
    BY <2>1, <2>2 DEF Output
  <2>3. CASE ~ p.panics
    BY <2>1, <2>3 DEF Output
  <2>. QED BY <2>2, <2>3
<1>7. Clean(o[j]) = "\n" /\ Clean(o[j - 1]) = m
  BY <1>4
<1>. HIDE DEF a, o, m
<1>8. o[j] = "\n" /\ (o[j - 1] = m \/ m = " ")
  BY <1>7 DEF Clean
<1>9. /\ Len(o) = Len(a) + Len(z) /\ Len(a) \in Nat /\ Len(z) \in Nat
      /\ \A i \in 1 .. Len(a) : o[i] = a[i]
      /\ \A i \in 1 .. Len(z) : o[Len(a) + i] = z[i]
  <2>. HIDE DEF z
  <2>. QED BY <1>1, <1>2, <1>6
<1>10. j \in 2 .. Len(o)
  BY DEF o
<1>11. CASE j <= Len(a)
  <2>. HIDE DEF z
  <2>0. j \in 1 .. Len(a) /\ j - 1 \in 1 .. Len(a)
    BY <1>9, <1>10, <1>11
  <2>1. a[j] = "\n" /\ j - 1 \in 1 .. Len(a)
    BY <1>8, <1>9, <2>0
  <2>2. a[j - 1] = "\r"
    BY <1>1, <1>9, <1>10, <1>11, <2>1 DEF Lines
  <2>3. o[j - 1] = "\r"
    BY <1>9, <2>1, <2>2
  <2>4. Clean("\r") = " "
    BY DEF Clean
  <2>. QED BY <1>5, <1>7, <2>3, <2>4
<1>12. CASE j > Len(a)
  <2>. DEFINE k == j - Len(a)
  <2>1. k \in 1 .. Len(z) /\ Len(a) + k = j
    BY <1>9, <1>10, <1>12
  <2>2. z[k] = "\n"
    BY <1>8, <1>9, <2>1
  <2>3. CASE p.panics
    <3>1. z = Panic(<<>>, p.line)
      BY <2>3
    <3>2. k > 1 /\ z[k - 1] \in DigitChars
      <4>. HIDE DEF z, k
      <4>. QED BY <2>1, <2>2, <3>1, PanicTyped, ProgramTyped
    <3>3. k - 1 \in 1 .. Len(z) /\ Len(a) + (k - 1) = j - 1
      BY <1>9, <2>1, <3>2
    <3>4. o[j - 1] \in DigitChars
      <4>. HIDE DEF z, k
      <4>. QED BY <1>9, <3>2, <3>3
    <3>. QED BY <1>5, <1>8, <3>4
  <2>4. CASE ~ p.panics
    <3>1. z = exit_string /\ Len(z) = L
      BY <2>4
    <3>2. k \in 1 .. L /\ exit_string[k] = "\n"
      <4>. HIDE DEF z, k
      <4>. QED BY <2>1, <2>2, <3>1
    <3>3. k = L
      <4>. HIDE DEF k
      <4>. QED BY <1>3, <1>4, <3>2
    <3>. HIDE DEF z, L
    <3>4. j = Len(a) + L
      BY <2>1, <3>3
    <3>5. j = Len(o)
      BY <1>9, <3>1, <3>4
    <3>. QED BY <2>4, <3>5 DEF o
  <2>. QED BY <2>3, <2>4
<1>. QED BY <1>9, <1>10, <1>11, <1>12

-----------------------------------------------------------------------------
\* The types of the variables.
ConsoleTypes ==
    /\ program \in Programs
    /\ pi \in [pc : {"loaded", "main", "reset"}, out : Seq(Char)]
    /\ fifo \in Seq(Char) /\ tty \in Seq(Char)
    /\ port \in [devices : DeviceCounts, cable : {"in", "out", "gone"}, ready : BOOLEAN]
    /\ host \in [pc : {"find", "open", "install", "stdin", "poll", "read",
                       "done", "closed", "exit1"},
                 tries : Nat, pos : 0 .. Len(exit_string)]
    /\ keys \in [typed : Nat, echoed : Nat]
    /\ delivered \in Seq(Char) /\ printed \in Seq(Char) /\ lost \in Nat

\* The loop of pi_echo is running, or has seen the marker.
Echoing == {"stdin", "poll", "read", "done"}

\* printf gets delivered bytes, but not the first, the loader's answer.
ShownOf(sh, d) ==
    \A i \in 1 .. Len(sh) : i + 1 <= Len(d) /\ sh[i] = Clean(d[i + 1])

\* What was delivered and not printed waits in the receive buffer.
WaitingOf(sh, t, d) ==
    /\ Len(d) = 1 + Len(sh) + Len(t)
    /\ \A i \in 1 .. Len(t) : t[i] = d[1 + Len(sh) + i]

\* The Pi sends nothing before rpi-install has opened the port.
Asleep ==
    host.pc \in {"find", "open"} =>
        /\ pi = [pc |-> "loaded", out |-> <<BOOT_SUCCESS>>]
        /\ fifo = <<>> /\ tty = <<>> /\ delivered = <<>>

\* What was printed, the receive buffer and what was delivered, in every step of
\* the host.
Screened ==
    /\ host.pc \in {"find", "open", "install"} => printed = <<>>
    /\ port.cable # "in" => tty = <<>>
    /\ host.pc = "install" /\ port.cable = "in" => tty = delivered
    /\ host.pc \in Echoing /\ port.cable = "in" => WaitingOf(printed, tty, delivered)
    /\ ShownOf(printed, delivered)

\* All the Pi sends in its life up to the step pc: the answer of the loader and
\* the output of the program.
Stream(pc, p) ==
    IF pc = "loaded" THEN <<BOOT_SUCCESS>> ELSE <<BOOT_SUCCESS>> \o Output(p)

\* Delivered, in the FIFO and still to send: nothing is missing and nothing out
\* of order.
StreamOf(d, f, o, s) ==
    /\ Len(d) + Len(f) + Len(o) = Len(s)
    /\ \A i \in 1 .. Len(d) : d[i] = s[i]
    /\ \A i \in 1 .. Len(f) : f[i] = s[Len(d) + i]
    /\ \A i \in 1 .. Len(o) : o[i] = s[Len(d) + Len(f) + i]

\* While the host listens and nothing was lost, the bytes are all on their way.
Streamed ==
    Listening /\ lost = 0 => StreamOf(delivered, fifo, pi.out, Stream(pi.pc, program))

\* What pi_done has counted is at the end of what was printed.
Matched ==
    /\ host.pc \in {"find", "open", "install"} => host.pos = 0
    /\ host.pc \in {"install", "stdin", "poll", "read"} =>
          /\ host.pos < Len(exit_string)
          /\ host.pos # 0 => /\ Len(printed) > 0
                             /\ printed[Len(printed)] = exit_string[host.pos]

\* After the marker, the Pi has sent all of its output and all of it is printed.
Finished(p, pc, f, o, sh) ==
    /\ ~ p.panics
    /\ pc # "loaded" /\ o = <<>> /\ f = <<>>
    /\ Len(sh) = Len(Output(p))
    /\ \A i \in 1 .. Len(sh) : sh[i] = Clean(Output(p)[i])

\* At the end of the console, if nothing was lost.
AllShown ==
    host.pc = "done" /\ lost = 0 /\ PrintsByPrintk(program) =>
        Finished(program, pi.pc, fifo, pi.out, printed)

(***************************************************************************)
(* What stdio holds back is no more than its buffer takes and part of the  *)
(* last line; nothing when rpi-install has ended.                          *)
(***************************************************************************)
HeldBack ==
    /\ written \in Nat /\ written <= Len(printed)
    /\ Len(printed) - written <= StdoutSize
    /\ \A i \in written + 1 .. Len(printed) : printed[i] # "\n"
    /\ host.pc \in Ended => written = Len(printed)

\* The last two characters of the marker are the j-th that was printed and the
\* one before it.
MarkerAt(sh, j) ==
    /\ j \in 2 .. Len(sh) /\ sh[j] = exit_string[Len(exit_string)]
    /\ sh[j - 1] = exit_string[Len(exit_string) - 1]

(***************************************************************************)
(* The inductive invariant.  ScreenFaithful is Screened and HeldBack in    *)
(* other words, ExitMeansDone a part of AllShown; when pi_done completes   *)
(* the marker, Matched and Streamed say where in the stream its last two   *)
(* characters are, and OutputMarker that of a program that prints by       *)
(* printk only the end of the stream has them.                             *)
(***************************************************************************)
ConsoleInv == ConsoleTypes /\ Asleep /\ Screened /\ Streamed /\ Matched /\ AllShown

\* Two texts of the same length with the same characters are the same.
LEMMA SameText ==
    ASSUME NEW s \in Seq(Char), NEW q \in Seq(Char), Len(s) = Len(q),
           \A i \in 1 .. Len(q) : s[i] = q[i]
    PROVE  s = q
  OBVIOUS

\* A concatenation.
LEMMA Joined ==
    ASSUME NEW s \in Seq(Char), NEW b \in Seq(Char), NEW n, n = Len(b), NEW q, q = s \o b
    PROVE  /\ Len(q) = Len(s) + n /\ Len(s) \in Nat
           /\ \A i \in 1 .. Len(s) : q[i] = s[i]
           /\ \A i \in 1 .. n : q[Len(s) + i] = b[i]
  OBVIOUS

\* A byte that enters the receive buffer.
LEMMA WaitingGrows ==
    ASSUME NEW sh \in Seq(Char), NEW t \in Seq(Char), NEW d \in Seq(Char), NEW c \in Char
    PROVE  /\ WaitingOf(sh, t, d) => WaitingOf(sh, Append(t, c), Append(d, c))
           /\ ShownOf(sh, d) => ShownOf(sh, Append(d, c))
<1>. DEFINE u == Append(t, c)
            e == Append(d, c)
<1>1. /\ Len(u) = Len(t) + 1 /\ u[Len(t) + 1] = c
      /\ \A i \in 1 .. Len(t) : u[i] = t[i]
      /\ Len(e) = Len(d) + 1 /\ e[Len(d) + 1] = c
      /\ \A i \in 1 .. Len(d) : e[i] = d[i]
      /\ Len(t) \in Nat /\ Len(d) \in Nat /\ Len(sh) \in Nat
  OBVIOUS
<1>. HIDE DEF u, e
<1>2. WaitingOf(sh, t, d) => WaitingOf(sh, u, e)
  <2>. SUFFICES ASSUME WaitingOf(sh, t, d) PROVE WaitingOf(sh, u, e)
    OBVIOUS
  <2>1. Len(d) = 1 + Len(sh) + Len(t) /\ \A i \in 1 .. Len(t) : t[i] = d[1 + Len(sh) + i]
    BY DEF WaitingOf
  <2>2. Len(e) = 1 + Len(sh) + Len(u)
    BY <1>1, <2>1
  <2>3. ASSUME NEW i \in 1 .. Len(u) PROVE u[i] = e[1 + Len(sh) + i]
    <3>1. CASE i = Len(t) + 1
      BY <1>1, <2>1, <3>1
    <3>2. CASE i \in 1 .. Len(t)
      <4>1. 1 + Len(sh) + i \in 1 .. Len(d)
        BY <1>1, <2>1, <3>2
      <4>. QED BY <1>1, <2>1, <3>2, <4>1
    <3>. QED BY <1>1, <3>1, <3>2
  <2>. QED BY <2>2, <2>3 DEF WaitingOf
<1>3. ShownOf(sh, d) => ShownOf(sh, e)
  BY <1>1 DEF ShownOf
<1>. QED BY <1>2, <1>3 DEF u, e

\* put_code reads the answer, the first byte that was delivered.
LEMMA Answered ==
    ASSUME NEW t \in Seq(Char), t # <<>>
    PROVE  WaitingOf(<<>>, Tail(t), t)
  BY DEF WaitingOf

\* remove_nonprint leaves no byte that ends a C string.
LEMMA NonprintRemoved ==
    ASSUME NEW s \in Seq(Char)
    PROVE  LET b == CString(remove_nonprint(s))
           IN  /\ b \in Seq(Char) /\ Len(b) = Len(s)
               /\ \A i \in 1 .. Len(s) : b[i] = Clean(s[i])
<1>. DEFINE b == [i \in 1 .. Len(s) |-> Clean(s[i])]
<1>1. remove_nonprint(s) = b
  BY DEF remove_nonprint, Clean
<1>2. \A i \in 1 .. Len(s) : Clean(s[i]) \in Char /\ Clean(s[i]) # "NUL"
  BY CleanTyped
<1>3. b \in Seq(Char) /\ Len(b) = Len(s) /\ \A i \in 1 .. Len(s) : b[i] = Clean(s[i])
  BY <1>2
<1>. HIDE DEF b
<1>4. ~ Contains(b, "NUL")
  BY <1>2, <1>3 DEF Contains
<1>5. CString(b) = b
  BY <1>4 DEF CString
<1>. QED BY <1>1, <1>3, <1>5

\* pi_echo takes n bytes from the buffer and shows them.
LEMMA Echoed ==
    ASSUME NEW sh \in Seq(Char), NEW t \in Seq(Char), NEW d \in Seq(Char),
           WaitingOf(sh, t, d), ShownOf(sh, d),
           NEW n \in 1 .. Len(t), NEW b \in Seq(Char), Len(b) = n,
           \A i \in 1 .. n : b[i] = Clean(t[i])
    PROVE  /\ WaitingOf(sh \o b, SubSeq(t, n + 1, Len(t)), d)
           /\ ShownOf(sh \o b, d)
<1>. DEFINE u == SubSeq(t, n + 1, Len(t))
            q == sh \o b
<1>1. /\ Len(u) = Len(t) - n /\ \A i \in 1 .. Len(t) - n : u[i] = t[n + i]
      /\ Len(q) = Len(sh) + n /\ \A i \in 1 .. Len(sh) : q[i] = sh[i]
      /\ \A i \in 1 .. n : q[Len(sh) + i] = b[i]
      /\ Len(t) \in Nat /\ Len(d) \in Nat /\ Len(sh) \in Nat
  <2>1. Len(u) = Len(t) - n /\ \A i \in 1 .. Len(t) - n : u[i] = t[n + i]
    OBVIOUS
  <2>2. /\ Len(q) = Len(sh) + n /\ \A i \in 1 .. Len(sh) : q[i] = sh[i]
        /\ \A i \in 1 .. n : q[Len(sh) + i] = b[i]
    OBVIOUS
  <2>. QED BY <2>1, <2>2
<1>. HIDE DEF u, q
<1>2. Len(d) = 1 + Len(sh) + Len(t) /\ \A i \in 1 .. Len(t) : t[i] = d[1 + Len(sh) + i]
  BY DEF WaitingOf
<1>3. WaitingOf(q, u, d)
  <2>1. Len(d) = 1 + Len(q) + Len(u)
    BY <1>1, <1>2
  <2>2. ASSUME NEW i \in 1 .. Len(u) PROVE u[i] = d[1 + Len(q) + i]
    <3>1. n + i \in 1 .. Len(t) /\ 1 + Len(sh) + (n + i) = 1 + Len(q) + i
      BY <1>1
    <3>2. u[i] = t[n + i]
      BY <1>1
    <3>. QED BY <1>2, <3>1, <3>2
  <2>. QED BY <2>1, <2>2 DEF WaitingOf
<1>4. ASSUME NEW i \in 1 .. Len(q) PROVE i + 1 <= Len(d) /\ q[i] = Clean(d[i + 1])
  <2>1. CASE i \in 1 .. Len(sh)
    BY <1>1, <2>1 DEF ShownOf
  <2>2. CASE i \notin 1 .. Len(sh)
    <3>. DEFINE k == i - Len(sh)
    <3>1. k \in 1 .. n /\ k \in 1 .. Len(t) /\ i = Len(sh) + k /\ 1 + Len(sh) + k = i + 1
      BY <1>1, <2>2
    <3>. HIDE DEF k
    <3>2. q[i] = Clean(t[k])
      BY <1>1, <3>1
    <3>3. t[k] = d[i + 1]
      BY <1>2, <3>1
    <3>. QED BY <1>1, <1>2, <3>1, <3>2, <3>3
  <2>. QED BY <2>1, <2>2
<1>5. ShownOf(q, d)
  BY <1>4 DEF ShownOf
<1>. QED BY <1>3, <1>5 DEF u, q

\* UART_Put8: from the program to the FIFO.
LEMMA StreamPut ==
    ASSUME NEW d \in Seq(Char), NEW f \in Seq(Char), NEW o \in Seq(Char), NEW s \in Seq(Char),
           o # <<>>, StreamOf(d, f, o, s)
    PROVE  StreamOf(d, Append(f, Head(o)), Tail(o), s)
<1>. DEFINE g == Append(f, Head(o))
            r == Tail(o)
<1>1. /\ Len(g) = Len(f) + 1 /\ g[Len(f) + 1] = o[1]
      /\ \A i \in 1 .. Len(f) : g[i] = f[i]
      /\ Len(r) = Len(o) - 1 /\ \A i \in 1 .. Len(o) - 1 : r[i] = o[i + 1]
      /\ Len(d) \in Nat /\ Len(f) \in Nat /\ Len(o) \in Nat \ {0}
  OBVIOUS
<1>. HIDE DEF g, r
<1>2. /\ Len(s) = Len(d) + Len(f) + Len(o)
      /\ \A i \in 1 .. Len(d) : d[i] = s[i]
      /\ \A i \in 1 .. Len(f) : f[i] = s[Len(d) + i]
      /\ \A i \in 1 .. Len(o) : o[i] = s[Len(d) + Len(f) + i]
  BY DEF StreamOf
<1>3. Len(s) = Len(d) + Len(g) + Len(r)
  BY <1>1, <1>2
<1>4. ASSUME NEW i \in 1 .. Len(g) PROVE g[i] = s[Len(d) + i]
  <2>1. CASE i \in 1 .. Len(f)
    BY <1>1, <1>2, <2>1
  <2>2. CASE i = Len(f) + 1
    <3>1. 1 \in 1 .. Len(o) /\ Len(d) + Len(f) + 1 = Len(d) + i
      BY <1>1, <2>2
    <3>2. o[1] = s[Len(d) + Len(f) + 1]
      BY <1>2, <3>1
    <3>. QED BY <1>1, <2>2, <3>1, <3>2
  <2>. QED BY <1>1, <2>1, <2>2
<1>5. ASSUME NEW i \in 1 .. Len(r) PROVE r[i] = s[Len(d) + Len(g) + i]
  <2>1. i + 1 \in 1 .. Len(o) /\ Len(d) + Len(f) + (i + 1) = Len(d) + Len(g) + i
    BY <1>1
  <2>2. r[i] = o[i + 1]
    BY <1>1
  <2>. QED BY <1>2, <2>1, <2>2
<1>6. StreamOf(d, g, r, s)
  BY <1>2, <1>3, <1>4, <1>5 DEF StreamOf
<1>. QED BY <1>6 DEF g, r

\* The wire: from the FIFO to the receive buffer.
LEMMA StreamWire ==
    ASSUME NEW d \in Seq(Char), NEW f \in Seq(Char), NEW o \in Seq(Char), NEW s \in Seq(Char),
           f # <<>>, StreamOf(d, f, o, s)
    PROVE  StreamOf(Append(d, Head(f)), Tail(f), o, s)
<1>. DEFINE e == Append(d, Head(f))
            r == Tail(f)
<1>1. /\ Len(e) = Len(d) + 1 /\ e[Len(d) + 1] = f[1]
      /\ \A i \in 1 .. Len(d) : e[i] = d[i]
      /\ Len(r) = Len(f) - 1 /\ \A i \in 1 .. Len(f) - 1 : r[i] = f[i + 1]
      /\ Len(d) \in Nat /\ Len(f) \in Nat \ {0} /\ Len(o) \in Nat
  OBVIOUS
<1>. HIDE DEF e, r
<1>2. /\ Len(s) = Len(d) + Len(f) + Len(o)
      /\ \A i \in 1 .. Len(d) : d[i] = s[i]
      /\ \A i \in 1 .. Len(f) : f[i] = s[Len(d) + i]
      /\ \A i \in 1 .. Len(o) : o[i] = s[Len(d) + Len(f) + i]
  BY DEF StreamOf
<1>3. Len(s) = Len(e) + Len(r) + Len(o) /\ Len(e) + Len(r) = Len(d) + Len(f)
  BY <1>1, <1>2
<1>4. ASSUME NEW i \in 1 .. Len(e) PROVE e[i] = s[i]
  <2>1. CASE i \in 1 .. Len(d)
    BY <1>1, <1>2, <2>1
  <2>2. CASE i = Len(d) + 1
    <3>1. 1 \in 1 .. Len(f)
      BY <1>1
    <3>2. f[1] = s[Len(d) + 1]
      BY <1>2, <3>1
    <3>. QED BY <1>1, <2>2, <3>2
  <2>. QED BY <1>1, <2>1, <2>2
<1>5. ASSUME NEW i \in 1 .. Len(r) PROVE r[i] = s[Len(e) + i]
  <2>0. i \in 1 .. Len(f) - 1
    BY <1>1
  <2>1. i + 1 \in 1 .. Len(f) /\ Len(d) + (i + 1) = Len(e) + i
    BY <1>1, <2>0
  <2>2. r[i] = f[i + 1]
    BY <1>1
  <2>. QED BY <1>2, <2>1, <2>2
<1>6. ASSUME NEW i \in 1 .. Len(o) PROVE o[i] = s[Len(e) + Len(r) + i]
  BY <1>2, <1>3
<1>7. StreamOf(e, r, o, s)
  BY <1>3, <1>4, <1>5, <1>6 DEF StreamOf
<1>. QED BY <1>7 DEF e, r

\* The loader's branch, after its answer was sent: the output follows.
LEMMA StreamBranch ==
    ASSUME NEW d \in Seq(Char), NEW e \in Seq(Char), NEW x \in Seq(Char), NEW o \in Seq(Char),
           NEW b \in Char, NEW a \in Seq(Char), Len(e) = 0, Len(x) = 0, Len(a) = 1, a[1] = b,
           StreamOf(d, e, x, a)
    PROVE  StreamOf(d, e, o, <<b>> \o o)
<1>. DEFINE s == <<b>> \o o
<1>1. /\ Len(s) = 1 + Len(o) /\ s[1] = b /\ \A i \in 1 .. Len(o) : s[1 + i] = o[i]
      /\ Len(d) \in Nat /\ Len(o) \in Nat
  OBVIOUS
<1>2. Len(d) = 1 /\ \A i \in 1 .. Len(d) : d[i] = b
  <2>1. Len(d) + Len(e) + Len(x) = Len(a) /\ \A i \in 1 .. Len(d) : d[i] = a[i]
    BY DEF StreamOf
  <2>2. Len(d) = 1
    BY <2>1
  <2>3. \A i \in 1 .. 1 : d[i] = a[i]
    BY <2>1, <2>2
  <2>. QED BY <2>2, <2>3
<1>. HIDE DEF s
<1>3. StreamOf(d, e, o, s)
  BY <1>1, <1>2 DEF StreamOf
<1>. QED BY <1>3 DEF s

\* open_tty: only the loader's answer is still to be sent.
LEMMA StreamStart ==
    ASSUME NEW d \in Seq(Char), NEW f \in Seq(Char), Len(d) = 0, Len(f) = 0, NEW o \in Seq(Char)
    PROVE  StreamOf(d, f, o, o)
  BY DEF StreamOf

\* Everything the Pi sends is a sequence of bytes.
LEMMA StreamTyped ==
    ASSUME NEW p \in Programs, NEW pc
    PROVE  Stream(pc, p) \in Seq(Char) /\ BOOT_SUCCESS \in Char
<1>1. BOOT_SUCCESS \in Char
  BY CharAssumption, Zenon
<1>2. Output(p) \in Seq(Char)
  BY OutputTyped
<1>. QED BY <1>1, <1>2 DEF Stream

-----------------------------------------------------------------------------
USE DEF history

\* The console starts well.
LEMMA InitConsole ==
    ASSUME Init PROVE ConsoleInv
<1>1. BOOT_SUCCESS \in Char
  BY CharAssumption, Zenon
<1>2. ConsoleTypes
  <2>1. pi \in [pc : {"loaded", "main", "reset"}, out : Seq(Char)]
    BY <1>1 DEF Init
  <2>2. port \in [devices : DeviceCounts, cable : {"in", "out", "gone"}, ready : BOOLEAN]
    BY DEF Init
  <2>3. host \in [pc : {"find", "open", "install", "stdin", "poll", "read",
                       "done", "closed", "exit1"},
                  tries : Nat, pos : 0 .. Len(exit_string)]
    BY MarkerTyped DEF Init
  <2>4. keys \in [typed : Nat, echoed : Nat]
    BY DEF Init
  <2>. QED BY <2>1, <2>2, <2>3, <2>4 DEF Init, ConsoleTypes
<1>3. host.pc = "find" /\ host.pos = 0
  BY DEF Init
<1>4. Asleep
  BY DEF Init, Asleep
<1>5. Screened
  BY <1>3 DEF Init, Screened, ShownOf, Echoing
<1>6. Streamed /\ Matched /\ AllShown
  BY <1>3 DEF Streamed, Matched, AllShown, Listening
<1>. QED BY <1>2, <1>4, <1>5, <1>6 DEF ConsoleInv

\* UART_Put8 keeps the invariant.
LEMMA PutConsole ==
    ASSUME ConsoleInv, UART_Put8 PROVE ConsoleInv'
<1>1. pi.out # <<>> /\ fifo' = Append(fifo, Head(pi.out)) /\ pi' = [pi EXCEPT !.out = Tail(@)]
  BY DEF UART_Put8
<1>2. UNCHANGED <<program, tty, port, host, keys, delivered, printed, lost>>
  BY DEF UART_Put8
<1>3. pi \in [pc : {"loaded", "main", "reset"}, out : Seq(Char)] /\ fifo \in Seq(Char)
  BY DEF ConsoleInv, ConsoleTypes
<1>4. /\ pi.out \in Seq(Char) /\ Head(pi.out) \in Char /\ Tail(pi.out) \in Seq(Char)
      /\ pi'.out = Tail(pi.out) /\ pi'.pc = pi.pc
  BY <1>1, <1>3
<1>5. pi' \in [pc : {"loaded", "main", "reset"}, out : Seq(Char)] /\ fifo' \in Seq(Char)
  <2>1. fifo' \in Seq(Char)
    BY <1>1, <1>3, <1>4
  <2>2. pi' \in [pc : {"loaded", "main", "reset"}, out : Seq(Char)]
    <3>. DEFINE r == Tail(pi.out)
    <3>1. r \in Seq(Char) /\ pi' = [pi EXCEPT !.out = r]
      BY <1>1, <1>4
    <3>. HIDE DEF r
    <3>. QED BY <1>3, <3>1
  <2>. QED BY <2>1, <2>2
<1>6. ConsoleTypes'
  BY <1>2, <1>5 DEF ConsoleInv, ConsoleTypes
<1>7. host.pc \notin {"find", "open"}
  BY DEF UART_Put8, Awake, ConsoleInv, Asleep
<1>8. Asleep' /\ Screened' /\ Matched'
  BY <1>2, <1>7 DEF ConsoleInv, Asleep, Screened, Matched
<1>9. Streamed'
  <2>. SUFFICES ASSUME Listening, lost = 0
                PROVE  StreamOf(delivered, fifo', pi'.out, Stream(pi.pc, program))
    BY <1>2, <1>4 DEF Streamed, Listening
  <2>1. StreamOf(delivered, fifo, pi.out, Stream(pi.pc, program))
    BY DEF ConsoleInv, Streamed
  <2>2. delivered \in Seq(Char) /\ program \in Programs
    BY DEF ConsoleInv, ConsoleTypes
  <2>3. Stream(pi.pc, program) \in Seq(Char)
    BY <2>2, StreamTyped
  <2>. QED BY <1>1, <1>3, <1>4, <2>1, <2>2, <2>3, StreamPut
<1>10. AllShown'
  BY <1>1, <1>2 DEF ConsoleInv, AllShown, Finished
<1>. QED BY <1>6, <1>8, <1>9, <1>10 DEF ConsoleInv

\* The loader's branch keeps the invariant.
LEMMA BranchConsole ==
    ASSUME ConsoleInv, Branch PROVE ConsoleInv'
<1>1. /\ pi.pc = "loaded" /\ pi.out = <<>> /\ fifo = <<>> /\ fifo' = <<>>
      /\ pi' = [pc |-> "main", out |-> Output(program)]
  BY DEF Branch, UART_Flush_Tx
<1>2. UNCHANGED <<program, tty, port, host, keys, delivered, printed, lost>>
  BY DEF Branch
<1>3. program \in Programs /\ delivered \in Seq(Char)
  BY DEF ConsoleInv, ConsoleTypes
<1>4. Output(program) \in Seq(Char)
  BY <1>3, OutputTyped
<1>5. pi' \in [pc : {"loaded", "main", "reset"}, out : Seq(Char)] /\ fifo' \in Seq(Char)
  BY <1>1, <1>4
<1>6. ConsoleTypes'
  BY <1>2, <1>5 DEF ConsoleInv, ConsoleTypes
<1>7. host.pc \notin {"find", "open"}
  BY <1>1 DEF ConsoleInv, Asleep
<1>8. Asleep' /\ Screened' /\ Matched'
  BY <1>2, <1>7 DEF ConsoleInv, Asleep, Screened, Matched
<1>9. Streamed'
  <2>. DEFINE a == <<BOOT_SUCCESS>>
  <2>1. BOOT_SUCCESS \in Char
    BY <1>3, StreamTyped
  <2>2. a \in Seq(Char) /\ Len(a) = 1 /\ a[1] = BOOT_SUCCESS
    BY <2>1
  <2>3. Stream(pi.pc, program) = a /\ Stream(pi'.pc, program) = a \o Output(program)
    BY <1>1 DEF Stream
  <2>4. pi'.out = Output(program)
    BY <1>1
  <2>. SUFFICES ASSUME Listening, lost = 0
                PROVE  StreamOf(delivered, fifo', pi'.out, a \o Output(program))
    BY <1>2, <2>3 DEF Streamed, Listening
  <2>5. StreamOf(delivered, fifo, pi.out, a)
    BY <2>3 DEF ConsoleInv, Streamed
  <2>6. fifo \in Seq(Char) /\ pi.out \in Seq(Char) /\ Len(fifo) = 0 /\ Len(pi.out) = 0
    BY <1>1
  <2>7. StreamOf(delivered, fifo, Output(program), a \o Output(program))
    BY <1>3, <1>4, <2>1, <2>2, <2>5, <2>6, StreamBranch
  <2>. HIDE DEF a
  <2>. QED BY <1>1, <2>4, <2>7
<1>10. AllShown'
  BY <1>1, <1>2 DEF ConsoleInv, AllShown, Finished
<1>. QED BY <1>6, <1>8, <1>9, <1>10 DEF ConsoleInv

\* The reset keeps the invariant.
LEMMA RebootConsole ==
    ASSUME ConsoleInv, rpi_reboot PROVE ConsoleInv'
<1>1. /\ pi.pc = "main" /\ fifo = <<>> /\ fifo' = <<>> /\ pi' = [pi EXCEPT !.pc = "reset"]
  BY DEF rpi_reboot, UART_Flush_Tx
<1>2. UNCHANGED <<program, tty, port, host, keys, delivered, printed, lost>>
  BY DEF rpi_reboot
<1>3. pi \in [pc : {"loaded", "main", "reset"}, out : Seq(Char)]
  BY DEF ConsoleInv, ConsoleTypes
<1>4. /\ pi' \in [pc : {"loaded", "main", "reset"}, out : Seq(Char)]
      /\ pi'.pc = "reset" /\ pi'.out = pi.out
  BY <1>1, <1>3
<1>5. fifo' = fifo
  BY <1>1
<1>6. ConsoleTypes'
  BY <1>2, <1>4, <1>5 DEF ConsoleInv, ConsoleTypes
<1>7. host.pc \notin {"find", "open"}
  BY <1>1 DEF ConsoleInv, Asleep
<1>8. Asleep' /\ Screened' /\ Matched'
  BY <1>2, <1>7 DEF ConsoleInv, Asleep, Screened, Matched
<1>9. Stream(pi'.pc, program) = Stream(pi.pc, program)
  BY <1>1, <1>4 DEF Stream
<1>10. Streamed'
  BY <1>2, <1>4, <1>5, <1>9 DEF ConsoleInv, Streamed, Listening
<1>11. AllShown'
  BY <1>2, <1>4, <1>5 DEF ConsoleInv, AllShown, Finished
<1>. QED BY <1>6, <1>8, <1>10, <1>11 DEF ConsoleInv

\* The wire keeps the invariant.
LEMMA WireConsole ==
    ASSUME ConsoleInv, Wire PROVE ConsoleInv'
<1>1. fifo # <<>> /\ fifo' = Tail(fifo) /\ UNCHANGED <<program, pi, port, host, keys, printed>>
  BY DEF Wire
<1>2. /\ program \in Programs /\ fifo \in Seq(Char) /\ tty \in Seq(Char)
      /\ delivered \in Seq(Char) /\ printed \in Seq(Char) /\ lost \in Nat /\ pi.out \in Seq(Char)
  BY DEF ConsoleInv, ConsoleTypes
<1>3. fifo' \in Seq(Char) /\ Head(fifo) \in Char
  BY <1>1, <1>2
<1>4. host.pc \notin {"find", "open"} /\ Asleep' /\ Matched'
  BY <1>1 DEF ConsoleInv, Asleep, Matched
<1>5. AllShown'
  <2>1. lost' = 0 => lost = 0
    BY <1>2 DEF Wire
  <2>. QED BY <1>1, <2>1 DEF ConsoleInv, AllShown, Finished
<1>6. CASE ~ Listening /\ UNCHANGED <<tty, delivered, lost>>
  <2>1. UNCHANGED <<tty, delivered, lost>>
    BY <1>6
  <2>2. ConsoleTypes'
    BY <1>1, <1>3, <2>1 DEF ConsoleInv, ConsoleTypes
  <2>3. Screened'
    BY <1>1, <2>1 DEF ConsoleInv, Screened
  <2>4. Streamed'
    BY <1>1, <1>6 DEF Streamed, Listening
  <2>. QED BY <1>4, <1>5, <2>2, <2>3, <2>4 DEF ConsoleInv
<1>7. CASE /\ Listening /\ UNCHANGED lost
           /\ tty' = Append(tty, Head(fifo)) /\ delivered' = Append(delivered, Head(fifo))
  <2>. DEFINE c == Head(fifo)
  <2>1. tty' = Append(tty, c) /\ delivered' = Append(delivered, c) /\ UNCHANGED lost
    BY <1>7
  <2>2. tty' \in Seq(Char) /\ delivered' \in Seq(Char)
    BY <1>2, <1>3, <2>1
  <2>3. ConsoleTypes'
    BY <1>1, <1>3, <2>1, <2>2 DEF ConsoleInv, ConsoleTypes
  <2>4. port.cable = "in" /\ host.pc \in {"install", "stdin", "poll", "read"}
    BY <1>7 DEF Listening
  <2>5. /\ WaitingOf(printed, tty, delivered) => WaitingOf(printed, tty', delivered')
        /\ ShownOf(printed, delivered) => ShownOf(printed, delivered')
    <3>. HIDE DEF c
    <3>. QED BY <1>2, <1>3, <2>1, WaitingGrows DEF c
  <2>6. Screened'
    <3>1. host.pc = "install" => tty' = delivered'
      BY <2>1, <2>4 DEF ConsoleInv, Screened
    <3>. QED BY <1>1, <2>4, <2>5, <3>1 DEF ConsoleInv, Screened
  <2>7. Streamed'
    <3>. SUFFICES ASSUME lost = 0
                  PROVE  StreamOf(delivered', fifo', pi.out, Stream(pi.pc, program))
      BY <1>1, <2>1 DEF Streamed
    <3>1. StreamOf(delivered, fifo, pi.out, Stream(pi.pc, program))
      BY <1>7 DEF ConsoleInv, Streamed
    <3>2. Stream(pi.pc, program) \in Seq(Char)
      BY <1>2, StreamTyped
    <3>. QED BY <1>1, <1>2, <2>1, <3>1, <3>2, StreamWire
  <2>. QED BY <1>4, <1>5, <2>3, <2>6, <2>7 DEF ConsoleInv
<1>8. CASE lost' = lost + 1 /\ UNCHANGED <<tty, delivered>>
  <2>1. lost' = lost + 1 /\ UNCHANGED <<tty, delivered>>
    BY <1>8
  <2>2. lost' \in Nat /\ lost' # 0
    BY <1>2, <2>1
  <2>3. ConsoleTypes'
    BY <1>1, <1>3, <2>1, <2>2 DEF ConsoleInv, ConsoleTypes
  <2>4. Screened'
    BY <1>1, <2>1 DEF ConsoleInv, Screened
  <2>5. Streamed'
    BY <2>2 DEF Streamed
  <2>. QED BY <1>4, <1>5, <2>3, <2>4, <2>5 DEF ConsoleInv
<1>. QED BY <1>6, <1>7, <1>8 DEF Wire

\* A key and the permissions of the device node keep the invariant.
LEMMA UserConsole ==
    ASSUME ConsoleInv, Type \/ PortReady PROVE ConsoleInv'
<1>1. /\ UNCHANGED <<program, pi, fifo, tty, host, delivered, printed, lost>>
      /\ port'.cable = port.cable
  BY DEF Type, PortReady, ConsoleInv, ConsoleTypes
<1>2. keys' \in [typed : Nat, echoed : Nat]
  <2>1. keys \in [typed : Nat, echoed : Nat]
    BY DEF ConsoleInv, ConsoleTypes
  <2>2. CASE Type
    <3>. DEFINE n == keys.typed + 1
    <3>1. n \in Nat /\ keys' = [keys EXCEPT !.typed = n]
      BY <2>1, <2>2 DEF Type
    <3>. HIDE DEF n
    <3>. QED BY <2>1, <3>1
  <2>3. CASE PortReady
    BY <2>1, <2>3 DEF PortReady
  <2>. QED BY <2>2, <2>3
<1>3. port' \in [devices : DeviceCounts, cable : {"in", "out", "gone"}, ready : BOOLEAN]
  BY DEF Type, PortReady, ConsoleInv, ConsoleTypes
<1>4. ConsoleTypes'
  BY <1>1, <1>2, <1>3 DEF ConsoleInv, ConsoleTypes
<1>5. Asleep' /\ Screened' /\ Streamed' /\ Matched' /\ AllShown'
  BY <1>1 DEF ConsoleInv, Asleep, Screened, Streamed, Matched, AllShown, Listening
<1>. QED BY <1>4, <1>5 DEF ConsoleInv

\* Pulling the cable and the removal of the device node keep the invariant.
LEMMA CableConsole ==
    ASSUME ConsoleInv, Unplug \/ NodeRemoved PROVE ConsoleInv'
<1>1. UNCHANGED <<program, pi, fifo, host, keys, delivered, printed, lost>>
  BY DEF Unplug, NodeRemoved
<1>2. tty' = <<>>
  BY DEF Unplug, NodeRemoved, ConsoleInv, Screened
<1>3. /\ port' \in [devices : DeviceCounts, cable : {"in", "out", "gone"}, ready : BOOLEAN]
      /\ port'.cable # "in"
  BY DEF Unplug, NodeRemoved, ConsoleInv, ConsoleTypes
<1>4. ConsoleTypes'
  BY <1>1, <1>2, <1>3 DEF ConsoleInv, ConsoleTypes
<1>5. Asleep' /\ Screened'
  BY <1>1, <1>2, <1>3 DEF ConsoleInv, Asleep, Screened
<1>6. Streamed'
  BY <1>3 DEF Streamed, Listening
<1>7. Matched' /\ AllShown'
  BY <1>1 DEF ConsoleInv, Matched, AllShown
<1>. QED BY <1>4, <1>5, <1>6, <1>7 DEF ConsoleInv

\* The host before the answer: find_ttyusb and open_tty, which ends with the
\* port open, nothing received and the answer still to come.
LEMMA OpenConsole ==
    ASSUME ConsoleInv, find_ttyusb \/ open_tty \/ open_tty_retries PROVE ConsoleInv'
<1>1. UNCHANGED <<program, pi, fifo, tty, port, keys, delivered, printed, lost>>
  BY DEF find_ttyusb, open_tty, open_tty_retries
<1>2. /\ host.pc \in {"find", "open"} /\ host.pos = 0
      /\ host \in [pc : {"find", "open", "install", "stdin", "poll", "read",
                         "done", "closed", "exit1"},
                   tries : Nat, pos : 0 .. Len(exit_string)]
  BY DEF find_ttyusb, open_tty, open_tty_retries, ConsoleInv, ConsoleTypes, Matched
<1>3. /\ host'.pc \in {"open", "install", "exit1"} /\ host'.pos = 0
      /\ host' \in [pc : {"find", "open", "install", "stdin", "poll", "read",
                          "done", "closed", "exit1"},
                    tries : Nat, pos : 0 .. Len(exit_string)]
  <2>1. CASE find_ttyusb
    BY <1>2, <2>1 DEF find_ttyusb, GoTo
  <2>2. CASE open_tty
    <3>1. host' = [host EXCEPT !.pc = "install", !.tries = 0]
      BY <2>2 DEF open_tty
    <3>2. 0 \in Nat
      OBVIOUS
    <3>. QED BY <1>2, <3>1, <3>2
  <2>3. CASE open_tty_retries
    <3>. DEFINE pc == IF host.tries + 1 < MAX_OPEN_ATTEMPTS THEN "open" ELSE "exit1"
                n == host.tries + 1
    <3>1. pc \in {"open", "exit1"} /\ n \in Nat
      BY <1>2
    <3>2. host' = [host EXCEPT !.tries = n, !.pc = pc]
      BY <2>3 DEF open_tty_retries
    <3>. HIDE DEF pc, n
    <3>. QED BY <1>2, <3>1, <3>2
  <2>. QED BY <2>1, <2>2, <2>3
<1>4. /\ pi = [pc |-> "loaded", out |-> <<BOOT_SUCCESS>>]
      /\ fifo = <<>> /\ tty = <<>> /\ delivered = <<>> /\ printed = <<>>
  BY <1>2 DEF ConsoleInv, Asleep, Screened
<1>5. ConsoleTypes'
  BY <1>1, <1>3 DEF ConsoleInv, ConsoleTypes
<1>6. Asleep'
  BY <1>1, <1>4 DEF Asleep
<1>7. Screened'
  BY <1>1, <1>3, <1>4 DEF ConsoleInv, Screened, Echoing
<1>8. Streamed'
  <2>1. pi.out = Stream(pi.pc, program)
    BY <1>4 DEF Stream
  <2>2. delivered \in Seq(Char) /\ fifo \in Seq(Char) /\ pi.out \in Seq(Char)
    BY DEF ConsoleInv, ConsoleTypes
  <2>3. Len(delivered) = 0 /\ Len(fifo) = 0
    BY <1>4
  <2>4. StreamOf(delivered, fifo, pi.out, pi.out)
    BY <2>2, <2>3, StreamStart
  <2>. QED BY <1>1, <2>1, <2>4 DEF Streamed
<1>9. Matched' /\ AllShown'
  BY <1>3, MarkerTyped DEF Matched, AllShown
<1>. QED BY <1>5, <1>6, <1>7, <1>8, <1>9 DEF ConsoleInv

\* put_code reads the answer, or gives up.
LEMMA InstallConsole ==
    ASSUME ConsoleInv, put_code \/ put_code_fails PROVE ConsoleInv'
<1>1. UNCHANGED <<program, pi, fifo, port, keys, delivered, printed, lost>>
  BY DEF put_code, put_code_fails
<1>2. /\ host.pc = "install" /\ host.pos = 0 /\ printed = <<>>
      /\ tty \in Seq(Char) /\ delivered \in Seq(Char)
      /\ host \in [pc : {"find", "open", "install", "stdin", "poll", "read",
                         "done", "closed", "exit1"},
                   tries : Nat, pos : 0 .. Len(exit_string)]
  BY DEF put_code, put_code_fails, ConsoleInv, ConsoleTypes, Matched, Screened
<1>3. /\ host'.pc \in {"stdin", "exit1"} /\ host'.pos = 0
      /\ host' \in [pc : {"find", "open", "install", "stdin", "poll", "read",
                          "done", "closed", "exit1"},
                    tries : Nat, pos : 0 .. Len(exit_string)]
  BY <1>2 DEF put_code, put_code_fails, GoTo
<1>4. tty' \in Seq(Char) /\ (host'.pc = "stdin" => tty # <<>> /\ tty' = Tail(tty))
  <2>1. CASE put_code
    BY <1>2, <2>1 DEF put_code
  <2>2. CASE put_code_fails
    <3>1. host'.pc = "exit1" /\ tty' = tty
      BY <1>2, <2>2 DEF put_code_fails, GoTo
    <3>. QED BY <1>2, <3>1
  <2>. QED BY <2>1, <2>2
<1>5. ConsoleTypes'
  BY <1>1, <1>3, <1>4 DEF ConsoleInv, ConsoleTypes
<1>6. Asleep'
  BY <1>3 DEF Asleep
<1>7. Screened'
  <2>1. port.cable = "in" => tty = delivered
    BY <1>2 DEF ConsoleInv, Screened
  <2>2. port.cable # "in" => tty' = <<>>
    BY DEF ConsoleInv, Screened, put_code, put_code_fails
  <2>3. host'.pc = "stdin" /\ port.cable = "in" => WaitingOf(printed, tty', delivered)
    BY <1>2, <1>4, <2>1, Answered
  <2>4. ShownOf(printed, delivered)
    BY DEF ConsoleInv, Screened
  <2>. QED BY <1>1, <1>3, <2>2, <2>3, <2>4 DEF Screened, Echoing
<1>8. Streamed'
  BY <1>1, <1>2 DEF ConsoleInv, Streamed, Listening
<1>9. Matched' /\ AllShown'
  BY <1>3, MarkerTyped DEF Matched, AllShown
<1>. QED BY <1>5, <1>6, <1>7, <1>8, <1>9 DEF ConsoleInv

\* The waits of pi_echo, for a key and for the port, and its empty reads.
LEMMA WaitConsole ==
    ASSUME ConsoleInv, read_timeout \/ can_read_timeout \/ pi_echo_closed PROVE ConsoleInv'
<1>1. UNCHANGED <<program, pi, fifo, tty, port, delivered, printed, lost>>
  BY DEF read_timeout, can_read_timeout, pi_echo_closed
<1>2. /\ host.pc \in {"stdin", "poll", "read"}
      /\ host \in [pc : {"find", "open", "install", "stdin", "poll", "read",
                         "done", "closed", "exit1"},
                   tries : Nat, pos : 0 .. Len(exit_string)]
      /\ keys \in [typed : Nat, echoed : Nat]
  BY DEF read_timeout, can_read_timeout, pi_echo_closed, ConsoleInv, ConsoleTypes
<1>3. /\ host'.pc \in {"stdin", "poll", "read", "closed", "exit1"} /\ host'.pos = host.pos
      /\ host' \in [pc : {"find", "open", "install", "stdin", "poll", "read",
                          "done", "closed", "exit1"},
                    tries : Nat, pos : 0 .. Len(exit_string)]
  BY <1>2 DEF read_timeout, can_read_timeout, pi_echo_closed, GoTo
<1>4. keys' \in [typed : Nat, echoed : Nat]
  BY <1>2 DEF read_timeout, can_read_timeout, pi_echo_closed
<1>5. ConsoleTypes'
  BY <1>1, <1>3, <1>4 DEF ConsoleInv, ConsoleTypes
<1>6. Asleep'
  BY <1>3 DEF Asleep
<1>7. Screened'
  BY <1>1, <1>2, <1>3 DEF ConsoleInv, Screened, Echoing
<1>8. Streamed'
  BY <1>1, <1>2 DEF ConsoleInv, Streamed, Listening
<1>9. Matched' /\ AllShown'
  BY <1>1, <1>2, <1>3 DEF ConsoleInv, Matched, AllShown
<1>. QED BY <1>5, <1>6, <1>7, <1>8, <1>9 DEF ConsoleInv

\* When pi_done has found the marker at the end of what is printed, the Pi has sent
\* all of its output, and all of it is printed.
LEMMA MarkerEndsStream ==
    ASSUME NEW p \in Programs, NEW pc \in {"loaded", "main", "reset"},
           NEW d \in Seq(Char), NEW f \in Seq(Char), NEW o \in Seq(Char),
           NEW t \in Seq(Char), NEW sh \in Seq(Char),
           StreamOf(d, f, o, Stream(pc, p)), WaitingOf(sh, t, d), ShownOf(sh, d),
           PrintsByPrintk(p), NEW j, MarkerAt(sh, j)
    PROVE  Finished(p, pc, f, o, sh)
<1>. DEFINE s == Stream(pc, p)
            q == Output(p)
<1>1. q \in Seq(Char) /\ BOOT_SUCCESS \in Char
  BY OutputTyped, StreamTyped
<1>2. /\ Len(d) \in Nat /\ Len(f) \in Nat /\ Len(o) \in Nat /\ Len(t) \in Nat
      /\ Len(sh) \in Nat /\ Len(q) \in Nat
  BY <1>1
<1>3. /\ Len(d) + Len(f) + Len(o) = Len(s) /\ \A i \in 1 .. Len(d) : d[i] = s[i]
      /\ Len(d) = 1 + Len(sh) + Len(t)
  BY DEF StreamOf, WaitingOf
<1>4. pc # "loaded"
  <2>. SUFFICES ASSUME pc = "loaded" PROVE FALSE
    OBVIOUS
  <2>1. Len(s) = 1
    BY <1>1 DEF Stream
  <2>2. Len(sh) > 1
    BY <1>2 DEF MarkerAt
  <2>. HIDE DEF s
  <2>. QED BY <1>2, <1>3, <2>1, <2>2
<1>5. Len(s) = 1 + Len(q) /\ \A i \in 1 .. Len(q) : s[1 + i] = q[i]
  <2>1. s = <<BOOT_SUCCESS>> \o q
    BY <1>4 DEF Stream
  <2>. HIDE DEF q, s
  <2>. QED BY <1>1, <2>1
<1>. HIDE DEF s, q
<1>6. Len(sh) + Len(t) + Len(f) + Len(o) = Len(q)
  BY <1>2, <1>3, <1>5
<1>7. ASSUME NEW i \in 1 .. Len(sh) PROVE i \in 1 .. Len(q) /\ sh[i] = Clean(q[i])
  <2>1. sh[i] = Clean(d[i + 1])
    BY DEF ShownOf
  <2>2. i + 1 \in 1 .. Len(d) /\ i \in 1 .. Len(q) /\ i + 1 = 1 + i
    BY <1>2, <1>3, <1>6
  <2>3. d[i + 1] = s[i + 1] /\ s[1 + i] = q[i]
    BY <1>3, <1>5, <2>2
  <2>. QED BY <2>1, <2>2, <2>3
<1>8. j \in 2 .. Len(sh) /\ j \in 1 .. Len(sh) /\ j - 1 \in 1 .. Len(sh)
  BY <1>2 DEF MarkerAt
<1>9. j \in 2 .. Len(q) /\ sh[j] = Clean(q[j]) /\ sh[j - 1] = Clean(q[j - 1])
  BY <1>2, <1>7, <1>8
<1>10. ~ p.panics /\ j = Len(q)
  BY <1>9, OutputMarker DEF q, MarkerAt
<1>11. Len(sh) = Len(q) /\ Len(f) = 0 /\ Len(o) = 0
  BY <1>2, <1>6, <1>8, <1>10
<1>12. f = <<>> /\ o = <<>>
  BY <1>11
<1>. QED BY <1>4, <1>7, <1>10, <1>11, <1>12 DEF q, Finished

\* The body of pi_echo's loop keeps the invariant.
LEMMA EchoConsole ==
    ASSUME ConsoleInv, pi_echo PROVE ConsoleInv'
<1>. DEFINE L == Len(exit_string)
            n == IF Len(tty) < BufSize THEN Len(tty) ELSE BufSize
            b == CString(remove_nonprint(SubSeq(tty, 1, n)))
            seen == pi_done(b, host.pos)
<1>1. /\ host.pc = "read" /\ n > 0
      /\ tty' = SubSeq(tty, n + 1, Len(tty)) /\ printed' = printed \o b
      /\ host' = [host EXCEPT !.pos = seen, !.pc = IF seen = L THEN "done" ELSE "stdin"]
      /\ UNCHANGED <<program, pi, fifo, port, keys, delivered, lost>>
  <2>1. \/ seen = L /\ host' = [host EXCEPT !.pos = seen, !.pc = "done"]
        \/ seen # L /\ host' = [host EXCEPT !.pos = seen, !.pc = "stdin"]
    BY DEF pi_echo
  <2>2. host' = [host EXCEPT !.pos = seen, !.pc = IF seen = L THEN "done" ELSE "stdin"]
    <3>. HIDE DEF seen, L
    <3>. QED BY <2>1
  <2>. QED BY <2>2 DEF pi_echo
<1>2. /\ program \in Programs /\ tty \in Seq(Char) /\ printed \in Seq(Char)
      /\ delivered \in Seq(Char) /\ fifo \in Seq(Char) /\ pi.out \in Seq(Char)
      /\ pi.pc \in {"loaded", "main", "reset"} /\ lost \in Nat
      /\ host \in [pc : {"find", "open", "install", "stdin", "poll", "read",
                         "done", "closed", "exit1"},
                   tries : Nat, pos : 0 .. Len(exit_string)]
  BY DEF ConsoleInv, ConsoleTypes
<1>3. L \in Nat /\ L > 1 /\ host.pos \in 0 .. L - 1
      /\ (host.pos # 0 => Len(printed) > 0 /\ printed[Len(printed)] = exit_string[host.pos])
  BY <1>1, <1>2, MarkerTyped DEF ConsoleInv, Matched
<1>4. n \in 1 .. Len(tty) /\ Len(tty) \in Nat
  <2>1. BufSize \in Nat /\ Len(tty) \in Nat
    BY <1>2, ConsoleAssumption
  <2>2. n > 0
    BY <1>1
  <2>. QED BY <2>1, <2>2
<1>. HIDE DEF n
<1>5. /\ SubSeq(tty, 1, n) \in Seq(Char) /\ Len(SubSeq(tty, 1, n)) = n
      /\ \A i \in 1 .. n : SubSeq(tty, 1, n)[i] = tty[i]
  BY <1>2, <1>4
<1>6. b \in Seq(Char) /\ Len(b) = n /\ \A i \in 1 .. n : b[i] = Clean(tty[i])
  <2>. DEFINE s == SubSeq(tty, 1, n)
  <2>1. s \in Seq(Char) /\ Len(s) = n /\ \A i \in 1 .. n : s[i] = tty[i]
    BY <1>5
  <2>2. b = CString(remove_nonprint(s))
    OBVIOUS
  <2>. HIDE DEF s, b
  <2>3. b \in Seq(Char) /\ Len(b) = Len(s) /\ \A i \in 1 .. Len(s) : b[i] = Clean(s[i])
    BY <2>1, <2>2, NonprintRemoved
  <2>. QED BY <2>1, <2>3
<1>. HIDE DEF b
<1>7. port.cable = "in"
  <2>1. tty # <<>>
    BY <1>2, <1>4
  <2>. QED BY <2>1 DEF ConsoleInv, Screened
<1>8. WaitingOf(printed, tty, delivered) /\ ShownOf(printed, delivered)
  BY <1>1, <1>7 DEF ConsoleInv, Screened, Echoing
<1>9. WaitingOf(printed', tty', delivered) /\ ShownOf(printed', delivered)
  BY <1>1, <1>2, <1>4, <1>6, <1>8, Echoed
<1>10. tty' \in Seq(Char) /\ printed' \in Seq(Char)
  <2>1. tty' = SubSeq(tty, n + 1, Len(tty)) /\ printed' = printed \o b
    BY <1>1
  <2>2. tty' \in Seq(Char)
    BY <1>2, <1>4, <2>1
  <2>3. printed' \in Seq(Char)
    BY <1>2, <1>6, <2>1
  <2>. QED BY <2>2, <2>3
<1>11. /\ Len(printed') = Len(printed) + n /\ Len(printed) \in Nat
       /\ \A i \in 1 .. Len(printed) : printed'[i] = printed[i]
       /\ \A i \in 1 .. n : printed'[Len(printed) + i] = b[i]
  <2>1. printed' = printed \o b /\ printed \in Seq(Char) /\ b \in Seq(Char) /\ Len(b) = n
    BY <1>1, <1>2, <1>6
  <2>0. printed \in Seq(Char) /\ b \in Seq(Char)
    BY <2>1
  <2>. DEFINE q == printed \o b
  <2>2. Len(q) = Len(printed) + Len(b) /\ Len(printed) \in Nat
    BY <2>0
  <2>3. \A i \in 1 .. Len(printed) : q[i] = printed[i]
    BY <2>0
  <2>4. \A i \in 1 .. Len(b) : q[Len(printed) + i] = b[i]
    BY <2>0
  <2>. HIDE DEF q
  <2>5. printed' = q
    BY <2>1 DEF q
  <2>. QED BY <2>1, <2>2, <2>3, <2>4, <2>5
<1>12. Len(b) > 0
  BY <1>4, <1>6
<1>13. /\ seen \in 0 .. L
       /\ seen # L /\ seen # 0 => b[Len(b)] = exit_string[seen]
       /\ seen = L => \E i \in 1 .. Len(b) : /\ b[i] = exit_string[L]
                                             /\ i > 1 => b[i - 1] = exit_string[L - 1]
                                             /\ i = 1 => host.pos = L - 1
  BY <1>3, <1>6, <1>12, MarkerFound, Zenon
<1>. HIDE DEF seen, L
<1>14. /\ host'.pos = seen /\ host'.pc = IF seen = L THEN "done" ELSE "stdin"
       /\ host' \in [pc : {"find", "open", "install", "stdin", "poll", "read",
                           "done", "closed", "exit1"},
                     tries : Nat, pos : 0 .. Len(exit_string)]
  <2>. DEFINE x == IF seen = L THEN "done" ELSE "stdin"
  <2>1. x \in {"done", "stdin"} /\ host' = [host EXCEPT !.pos = seen, !.pc = x]
    BY <1>1
  <2>2. seen \in 0 .. Len(exit_string)
    BY <1>13 DEF L
  <2>. HIDE DEF x
  <2>3. /\ host'.pos = seen /\ host'.pc = x
        /\ host' \in [pc : {"find", "open", "install", "stdin", "poll", "read",
                            "done", "closed", "exit1"},
                      tries : Nat, pos : 0 .. Len(exit_string)]
    BY <1>2, <2>1, <2>2
  <2>. QED BY <2>3 DEF x
<1>15. ConsoleTypes'
  BY <1>1, <1>10, <1>14 DEF ConsoleInv, ConsoleTypes
<1>16. Asleep' /\ Screened'
  BY <1>1, <1>7, <1>9, <1>14 DEF Asleep, Screened
<1>17. Listening
  BY <1>1, <1>7 DEF Listening
<1>18. Streamed'
  BY <1>1, <1>17 DEF ConsoleInv, Streamed
<1>19. Matched'
  <2>1. n \in 1 .. n /\ Len(printed) + n > 0 /\ Len(b) = n
    BY <1>4, <1>6, <1>11
  <2>2. printed'[Len(printed')] = b[Len(b)]
    BY <1>11, <2>1
  <2>3. seen # L => seen < L
    BY <1>3, <1>13
  <2>. QED BY <1>11, <1>13, <1>14, <2>1, <2>2, <2>3 DEF Matched, L
<1>20. AllShown'
  <2>. SUFFICES ASSUME seen = L, lost = 0, PrintsByPrintk(program)
                PROVE  Finished(program, pi.pc, fifo, pi.out, printed')
    BY <1>1, <1>14 DEF AllShown
  <2>1. StreamOf(delivered, fifo, pi.out, Stream(pi.pc, program))
    BY <1>17 DEF ConsoleInv, Streamed
  <2>2. PICK i \in 1 .. n : /\ b[i] = exit_string[L]
                            /\ i > 1 => b[i - 1] = exit_string[L - 1]
                            /\ i = 1 => host.pos = L - 1
    BY <1>6, <1>13
  <2>. DEFINE j == Len(printed) + i
  <2>3. printed'[j] = exit_string[L]
    BY <1>11, <2>2
  <2>4. j \in 2 .. Len(printed') /\ printed'[j - 1] = exit_string[L - 1]
    <3>1. CASE i = 1
      <4>1. host.pos = L - 1 /\ host.pos # 0
        BY <1>3, <2>2, <3>1
      <4>2. Len(printed) > 0 /\ printed[Len(printed)] = exit_string[L - 1]
        BY <1>3, <4>1
      <4>3. Len(printed) \in 1 .. Len(printed) /\ j - 1 = Len(printed) /\ j \in 2 .. Len(printed')
        BY <1>4, <1>11, <3>1, <4>2
      <4>. HIDE DEF j
      <4>. QED BY <1>11, <4>2, <4>3
    <3>2. CASE i > 1
      <4>1. i - 1 \in 1 .. n /\ j - 1 = Len(printed) + (i - 1) /\ j \in 2 .. Len(printed')
        BY <1>4, <1>11, <3>2
      <4>. HIDE DEF j
      <4>. QED BY <1>11, <2>2, <3>2, <4>1
    <3>. QED BY <1>4, <3>1, <3>2
  <2>. HIDE DEF j
  <2>5. MarkerAt(printed', j)
    BY <2>3, <2>4 DEF L, MarkerAt
  <2>. QED BY <1>2, <1>9, <1>10, <2>1, <2>5, MarkerEndsStream
<1>. QED BY <1>15, <1>16, <1>18, <1>19, <1>20 DEF ConsoleInv

\* Every step keeps the invariant.
LEMMA StepConsole ==
    ASSUME ConsoleInv, [Next]_vars PROVE ConsoleInv'
<1>1. CASE UNCHANGED vars
  BY <1>1 DEF vars, ConsoleInv, ConsoleTypes, Asleep, Screened, Streamed, Listening,
              Matched, AllShown
<1>2. CASE PiStep
  BY <1>2, PutConsole, BranchConsole, RebootConsole DEF PiStep
<1>3. CASE Wire \/ Type \/ PortReady \/ Unplug \/ NodeRemoved
  BY <1>3, WireConsole, UserConsole, CableConsole
<1>4. CASE HostStep
  BY <1>4, OpenConsole, InstallConsole, WaitConsole, EchoConsole DEF HostStep
<1>. QED BY <1>1, <1>2, <1>3, <1>4 DEF Next

-----------------------------------------------------------------------------
\* A step of rpi-install that prints nothing and flushes when it is the last.
LEMMA StdioKept ==
    ASSUME HeldBack, printed \in Seq(Char), printed' = printed,
           written' = IF host'.pc \in Ended THEN Len(printed) ELSE written
    PROVE  HeldBack'
<1>1. Len(printed) \in Nat /\ StdoutSize \in Nat
  BY ConsoleAssumption
<1>2. CASE host'.pc \in Ended
  BY <1>1, <1>2 DEF HeldBack
<1>3. CASE host'.pc \notin Ended
  BY <1>3 DEF HeldBack
<1>. QED BY <1>2, <1>3

\* Every step keeps what stdio may hold back.
LEMMA StepStdio ==
    ASSUME ConsoleInv, HeldBack, [Next]_vars PROVE HeldBack'
<1>1. /\ printed \in Seq(Char)
      /\ host \in [pc : {"find", "open", "install", "stdin", "poll", "read",
                         "done", "closed", "exit1"},
                   tries : Nat, pos : 0 .. Len(exit_string)]
  BY DEF ConsoleInv, ConsoleTypes
<1>2. CASE UNCHANGED <<host, printed, written>>
  BY <1>2 DEF HeldBack
<1>3. CASE PiStep \/ Wire \/ Type \/ PortReady \/ Unplug \/ NodeRemoved \/ UNCHANGED vars
  <2>1. UNCHANGED <<host, printed, written>>
    BY <1>3 DEF PiStep, UART_Put8, Branch, rpi_reboot, Wire, Type, PortReady, Unplug,
                NodeRemoved, vars
  <2>. QED BY <1>2, <2>1
<1>4. ASSUME NEW pc, GoTo(pc), printed' = printed PROVE HeldBack'
  <2>1. host'.pc = pc
    BY <1>1, <1>4 DEF GoTo
  <2>2. written' = IF host'.pc \in Ended THEN Len(printed) ELSE written
    BY <1>4, <2>1 DEF GoTo, Flush
  <2>. QED BY <1>1, <1>4, <2>2, StdioKept
<1>5. CASE find_ttyusb \/ put_code \/ put_code_fails
  <2>1. printed' = printed
    BY <1>5 DEF find_ttyusb, put_code, put_code_fails
  <2>2. \E pc : GoTo(pc)
    BY <1>5 DEF find_ttyusb, put_code, put_code_fails
  <2>. QED BY <1>4, <2>1, <2>2
<1>6. CASE read_timeout \/ can_read_timeout \/ pi_echo_closed
  <2>1. printed' = printed
    BY <1>6 DEF read_timeout, can_read_timeout, pi_echo_closed
  <2>2. \E pc : GoTo(pc)
    BY <1>6 DEF read_timeout, can_read_timeout, pi_echo_closed
  <2>. QED BY <1>4, <2>1, <2>2
<1>7. CASE open_tty
  <2>1. printed' = printed /\ written' = written /\ host'.pc = "install"
    BY <1>1, <1>7 DEF open_tty
  <2>2. "install" \notin Ended
    BY DEF Ended
  <2>. QED BY <1>1, <2>1, <2>2, StdioKept
<1>8. CASE open_tty_retries
  <2>. DEFINE pc == IF host.tries + 1 < MAX_OPEN_ATTEMPTS THEN "open" ELSE "exit1"
              n == host.tries + 1
  <2>1. printed' = printed /\ host' = [host EXCEPT !.tries = n, !.pc = pc] /\ Flush(pc)
    BY <1>8 DEF open_tty_retries
  <2>. HIDE DEF pc, n
  <2>2. host'.pc = pc
    BY <1>1, <2>1
  <2>3. written' = IF host'.pc \in Ended THEN Len(printed) ELSE written
    BY <2>1, <2>2 DEF Flush
  <2>. QED BY <1>1, <2>1, <2>3, StdioKept
<1>9. CASE pi_echo
  <2>1. \/ written' = Len(printed')
        \/ written' \in LineBuffered(printed') /\ host'.pc = "stdin"
    <3>. DEFINE seen == pi_done(CString(remove_nonprint(SubSeq(tty, 1,
                            IF Len(tty) < BufSize THEN Len(tty) ELSE BufSize))), host.pos)
    <3>1. \/ written' = Len(printed')
          \/ /\ host' = [host EXCEPT !.pos = seen, !.pc = "stdin"]
             /\ written' \in LineBuffered(printed')
      BY <1>9 DEF pi_echo
    <3>. HIDE DEF seen
    <3>. QED BY <1>1, <3>1
  <2>2. printed' \in Seq(Char) /\ Len(printed') \in Nat
    <3>1. ConsoleInv'
      BY <1>9, EchoConsole
    <3>2. printed' \in Seq(Char)
      BY <3>1 DEF ConsoleInv, ConsoleTypes
    <3>. QED BY <3>2
  <2>3. StdoutSize \in Nat /\ written \in Nat
    BY ConsoleAssumption DEF HeldBack
  <2>4. CASE written' = Len(printed')
    BY <2>2, <2>3, <2>4 DEF HeldBack
  <2>5. CASE written' \in LineBuffered(printed') /\ host'.pc = "stdin"
    <3>1. /\ written' \in written .. Len(printed') /\ Len(printed') - written' <= StdoutSize
          /\ \A i \in written' + 1 .. Len(printed') : printed'[i] # "\n"
      BY <2>5 DEF LineBuffered
    <3>2. written' \in Nat /\ written' <= Len(printed')
      BY <2>2, <2>3, <3>1
    <3>3. host'.pc \notin Ended
      BY <2>5 DEF Ended
    <3>. QED BY <3>1, <3>2, <3>3 DEF HeldBack
  <2>. QED BY <2>1, <2>4, <2>5
<1>. QED BY <1>3, <1>5, <1>6, <1>7, <1>8, <1>9 DEF Next, HostStep

\* The inductive invariant of the console, with what stdio holds back.
THEOREM ConsoleInvariant == Spec => [](ConsoleInv /\ HeldBack)
<1>1. Init => ConsoleInv /\ HeldBack
  <2>1. ASSUME Init PROVE HeldBack
    <3>1. /\ written = 0 /\ printed = <<>> /\ host.pc = "find" /\ StdoutSize \in Nat
      BY <2>1, ConsoleAssumption DEF Init
    <3>. QED BY <3>1 DEF HeldBack, Ended
  <2>. QED BY <2>1, InitConsole
<1>2. ConsoleInv /\ HeldBack /\ [Next]_vars => (ConsoleInv /\ HeldBack)'
  BY StepConsole, StepStdio
<1>. QED BY <1>1, <1>2, PTL DEF Spec

\* The screen is as long as what stdio has written.
LEMMA ScreenLength ==
    ASSUME HeldBack, printed \in Seq(Char)
    PROVE  /\ Len(Screen) = written
           /\ written = Len(printed) => Screen = printed
<1>1. written \in Nat /\ written <= Len(printed) /\ Len(printed) \in Nat
  BY DEF HeldBack
<1>2. /\ SubSeq(printed, 1, written) \in Seq(Char)
      /\ Len(SubSeq(printed, 1, written)) = written
      /\ \A i \in 1 .. written : SubSeq(printed, 1, written)[i] = printed[i]
  BY <1>1
<1>3. written = Len(printed) => SubSeq(printed, 1, written) = printed
  BY <1>2, SameText
<1>. QED BY <1>2, <1>3 DEF Screen

\* The invariant in terms of what the user sees.
LEMMA InvScreenFaithful ==
    ASSUME ConsoleInv, HeldBack PROVE ScreenFaithful
<1>. DEFINE s == SubSeq(delivered, 2, Len(delivered))
            v == [i \in 1 .. Len(s) |-> Clean(s[i])]
<1>1. /\ delivered \in Seq(Char) /\ printed \in Seq(Char) /\ tty \in Seq(Char)
      /\ Len(delivered) \in Nat /\ Len(printed) \in Nat /\ Len(tty) \in Nat
  BY DEF ConsoleInv, ConsoleTypes
<1>2. /\ s \in Seq(Char) /\ Len(s) = IF Len(delivered) = 0 THEN 0 ELSE Len(delivered) - 1
      /\ \A i \in 1 .. Len(s) : s[i] = delivered[i + 1]
  BY <1>1
<1>3. Visible = v
  BY DEF Visible, remove_nonprint, Clean
<1>. HIDE DEF s
<1>4. v \in Seq(Char) /\ Len(v) = Len(s) /\ \A i \in 1 .. Len(s) : v[i] = Clean(s[i])
  BY <1>2, CleanTyped
<1>. HIDE DEF v
<1>5. ShownOf(printed, delivered)
  BY DEF ConsoleInv, Screened
<1>6. Len(printed) <= Len(v)
  <2>1. CASE Len(printed) = 0
    BY <1>2, <1>4, <2>1
  <2>2. CASE Len(printed) # 0
    <3>1. Len(printed) \in 1 .. Len(printed)
      BY <1>1, <2>2
    <3>2. Len(printed) + 1 <= Len(delivered)
      BY <1>5, <3>1 DEF ShownOf
    <3>. QED BY <1>1, <1>2, <1>4, <3>2
  <2>. QED BY <2>1, <2>2
<1>7. SubSeq(v, 1, Len(printed)) = printed
  <2>1. \A i \in 1 .. Len(printed) : v[i] = printed[i]
    BY <1>1, <1>2, <1>4, <1>5, <1>6 DEF ShownOf
  <2>2. /\ SubSeq(v, 1, Len(printed)) \in Seq(Char) /\ Len(SubSeq(v, 1, Len(printed))) = Len(printed)
        /\ \A i \in 1 .. Len(printed) : SubSeq(v, 1, Len(printed))[i] = v[i]
    BY <1>1, <1>4, <1>6
  <2>. QED BY <1>1, <2>1, <2>2, SameText
<1>8. ASSUME port.cable = "in", host.pc \in {"stdin", "poll", "read", "done"}
      PROVE  Len(printed) + Len(tty) = Len(v)
  <2>1. Len(delivered) = 1 + Len(printed) + Len(tty)
    BY <1>8 DEF ConsoleInv, Screened, Echoing, WaitingOf
  <2>. QED BY <1>1, <1>2, <1>4, <2>1
<1>9. Len(Screen) = written /\ (written = Len(printed) => Screen = printed)
  BY <1>1, ScreenLength
<1>10. /\ written <= Len(printed) /\ Len(printed) - written <= StdoutSize
       /\ \A i \in written + 1 .. Len(printed) : printed[i] # "\n"
       /\ host.pc \in Ended => written = Len(printed)
  BY DEF HeldBack
<1>. QED BY <1>3, <1>6, <1>7, <1>8, <1>9, <1>10 DEF ScreenFaithful

(***************************************************************************)
(* pi_echo prints what the port received, nothing twice and nothing left   *)
(* out, whatever the sizes of the buffers and however the reads cut it;    *)
(* stdio holds back a part of the last line at most, and nothing when      *)
(* rpi-install ends.                                                       *)
(***************************************************************************)
THEOREM ScreenIsFaithful == Spec => []ScreenFaithful
  BY ConsoleInvariant, InvScreenFaithful, PTL

(***************************************************************************)
(* "pi exited" means that the program went through clean_reboot and all of *)
(* the marker was sent, for every text that a program prints with printk.  *)
(***************************************************************************)
THEOREM ExitIsDone == Spec => []ExitMeansDone
<1>1. ConsoleInv => ExitMeansDone
  BY DEF ConsoleInv, AllShown, Finished, ExitMeansDone
<1>. QED BY <1>1, ConsoleInvariant, PTL

-----------------------------------------------------------------------------
\* The characters of a printed number.
NumberChars == DigitChars \cup Range(UpperHex) \cup {"-", "x"}

\* They are bytes, and the terminal shows every one of them.
LEMMA NumberCharsTyped ==
    /\ NumberChars \subseteq Char
    /\ \A c \in NumberChars : c # "\n" /\ Clean(c) = c
<1>1. NumberChars \subseteq Char
  BY CharAssumption, Zenon DEF NumberChars, DigitChars
<1>2. \A c \in NumberChars : c \notin {"\n", "\r", "NUL", BOOT_SUCCESS}
  <2>1. \A c \in DigitChars : c \notin {"\n", "\r", "NUL", BOOT_SUCCESS}
    BY DEF DigitChars, Range, BASE16_CHARS, BOOT_SUCCESS
  <2>2. \A c \in Range(UpperHex) : c \notin {"\n", "\r", "NUL", BOOT_SUCCESS}
    BY DEF Range, UpperHex, BOOT_SUCCESS
  <2>. QED BY <2>1, <2>2 DEF NumberChars, BOOT_SUCCESS
<1>. QED BY <1>1, <1>2 DEF Clean

\* Every digit is read back, in lower and in upper case.
LEMMA DigitReadBack ==
    ASSUME NEW d \in 0 .. 15
    PROVE  /\ Digit(BASE16_CHARS[d + 1]) = d /\ Digit(UpperHex[d + 1]) = d
<1>. DEFINE Both(e) == {BASE16_CHARS[e + 1], UpperHex[e + 1]}
<1>1. \A e, g \in 0 .. 15 : e # g =>
         BASE16_CHARS[e + 1] \notin Both(g) /\ UpperHex[e + 1] \notin Both(g)
  BY DEF BASE16_CHARS, UpperHex
<1>2. BASE16_CHARS[d + 1] \in Both(d) /\ UpperHex[d + 1] \in Both(d)
  OBVIOUS
<1>. HIDE DEF Both
<1>3. (CHOOSE e \in 0 .. 15 : BASE16_CHARS[d + 1] \in Both(e)) = d
  BY <1>1, <1>2
<1>4. (CHOOSE e \in 0 .. 15 : UpperHex[d + 1] \in Both(e)) = d
  BY <1>1, <1>2
<1>. QED BY <1>3, <1>4 DEF Digit, Both

\* A text reads as v: the value before each of its characters.
Reads(s, b, v) ==
    \E h \in [0 .. Len(s) -> Nat] :
        /\ h[0] = 0 /\ h[Len(s)] = v
        /\ \A i \in 1 .. Len(s) : h[i] = h[i - 1] * b + Digit(s[i])

\* What Value computes.
LEMMA ReadsValue ==
    ASSUME NEW s, Len(s) \in Nat, NEW b, NEW v, Reads(s, b, v)
    PROVE  Value(s, b) = v
<1>. DEFINE N == Len(s)
            step(i, x) == x * b + Digit(s[i])
            Eq(f) == f = [i \in 0 .. N |-> IF i = 0 THEN 0 ELSE step(i, f[i - 1])]
            c == CHOOSE f : Eq(f)
<1>1. PICK h \in [0 .. N -> Nat] :
         h[0] = 0 /\ h[N] = v /\ \A i \in 1 .. N : h[i] = step(i, h[i - 1])
  BY DEF Reads
<1>2. Value(s, b) = c[N]
  BY DEF Value
<1>3. Eq(c)
  <2>. HIDE DEF N, step
  <2>1. \A i \in 0 .. N : h[i] = IF i = 0 THEN 0 ELSE step(i, h[i - 1])
    <3>1. \A i \in 0 .. N : i = 0 \/ i \in 1 .. N
      BY DEF N
    <3>. QED BY <1>1, <3>1
  <2>2. h = [i \in 0 .. N |-> h[i]]
    OBVIOUS
  <2>3. Eq(h)
    BY <2>1, <2>2
  <2>4. \E f : Eq(f)
    BY <2>3
  <2>. HIDE DEF Eq
  <2>. QED BY <2>4, Zenon
<1>4. \A n \in 0 .. N : c[n] = h[n]
  <2>. DEFINE T == {n \in Nat : c[n] = h[n]}
  <2>. HIDE DEF c, N, step
  <2>0. N \in Nat
    BY DEF N
  <2>1. 0 \in T
    BY <1>1, <1>3, <2>0
  <2>2. \A n \in Nat : n < N /\ n \in T => n + 1 \in T
    <3>. SUFFICES ASSUME NEW n \in Nat, n < N, c[n] = h[n] PROVE c[n + 1] = h[n + 1]
      OBVIOUS
    <3>1. n + 1 \in 1 .. N /\ n + 1 \in 0 .. N /\ n + 1 # 0 /\ (n + 1) - 1 = n
      BY <2>0
    <3>2. c[n + 1] = step(n + 1, c[n])
      BY <1>3, <3>1
    <3>3. h[n + 1] = step(n + 1, h[n])
      BY <1>1, <3>1
    <3>. QED BY <3>2, <3>3
  <2>. HIDE DEF T
  <2>3. \A n \in 0 .. N : n \in T
    BY <2>0, <2>1, <2>2, UpTo
  <2>. QED BY <2>3 DEF T
<1>. HIDE DEF c
<1>. QED BY <1>1, <1>2, <1>4

\* One more digit at the end.
LEMMA ReadsAppend ==
    ASSUME NEW s \in Seq(Char), NEW b \in Nat, NEW v, Reads(s, b, v), NEW c \in Char,
           NEW d \in Nat, Digit(c) = d
    PROVE  Reads(Append(s, c), b, v * b + d)
<1>. DEFINE N == Len(s)
            t == Append(s, c)
<1>1. PICK h \in [0 .. N -> Nat] :
         h[0] = 0 /\ h[N] = v /\ \A i \in 1 .. N : h[i] = h[i - 1] * b + Digit(s[i])
  BY DEF Reads
<1>. DEFINE g == [i \in 0 .. N + 1 |-> IF i = N + 1 THEN v * b + d ELSE h[i]]
<1>2. N \in Nat /\ Len(t) = N + 1 /\ t[N + 1] = c /\ \A i \in 1 .. N : t[i] = s[i]
  OBVIOUS
<1>. HIDE DEF N, t
<1>3. v \in Nat
  BY <1>1, <1>2
<1>4. v * b + d \in Nat
  BY <1>3
<1>5. g \in [0 .. N + 1 -> Nat]
  BY <1>2, <1>4
<1>6. g[0] = 0 /\ g[N + 1] = v * b + d /\ g[N] = v
  BY <1>1, <1>2
<1>7. \A i \in 1 .. N + 1 : g[i] = g[i - 1] * b + Digit(t[i])
  <2>. SUFFICES ASSUME NEW i \in 1 .. N + 1 PROVE g[i] = g[i - 1] * b + Digit(t[i])
    OBVIOUS
  <2>1. CASE i = N + 1
    <3>1. i - 1 = N
      BY <1>2, <2>1
    <3>. HIDE DEF g
    <3>. QED BY <1>2, <1>6, <2>1, <3>1
  <2>2. CASE i # N + 1
    <3>1. i \in 1 .. N /\ g[i] = h[i] /\ g[i - 1] = h[i - 1]
      BY <1>2, <2>2
    <3>. HIDE DEF g
    <3>. QED BY <1>1, <1>2, <3>1
  <2>. QED BY <2>1, <2>2
<1>. HIDE DEF g
<1>8. Reads(t, b, v * b + d)
  BY <1>2, <1>5, <1>6, <1>7 DEF Reads
<1>. QED BY <1>8 DEF t

\* The padding: it is not longer than asked for, and adds nothing to the value.
LEMMA ZerosTyped ==
    ASSUME NEW n \in Int, NEW b \in Nat
    PROVE  /\ Zeros(n) \in Seq(DigitChars)
           /\ Len(Zeros(n)) = IF n < 0 THEN 0 ELSE n
           /\ Reads(Zeros(n), b, 0)
<1>. DEFINE k == IF n < 0 THEN 0 ELSE n
            z == [i \in 1 .. k |-> "0"]
            h == [i \in 0 .. k |-> 0]
<1>1. k \in Nat /\ 1 .. n = 1 .. k
  OBVIOUS
<1>2. "0" \in DigitChars /\ Digit("0") = 0
  <2>1. BASE16_CHARS[1] = "0" /\ BASE16_CHARS[0 + 1] = "0" /\ 0 \in 0 .. 15
    BY DEF BASE16_CHARS
  <2>. QED BY <2>1, DigitCharsTyped, DigitReadBack
<1>3. Zeros(n) = z
  BY <1>1 DEF Zeros
<1>. HIDE DEF k
<1>4. z \in Seq(DigitChars) /\ Len(z) = k /\ \A i \in 1 .. k : z[i] = "0"
  BY <1>1, <1>2
<1>. HIDE DEF z
<1>5. h \in [0 .. k -> Nat] /\ h[0] = 0 /\ h[k] = 0
  BY <1>1
<1>6. \A i \in 1 .. k : h[i] = 0 /\ h[i - 1] = 0
  BY <1>1
<1>. HIDE DEF h
<1>7. \A i \in 1 .. k : h[i] = h[i - 1] * b + Digit(z[i])
  BY <1>2, <1>4, <1>6
<1>8. Reads(z, b, 0)
  BY <1>4, <1>5, <1>7 DEF Reads
<1>. QED BY <1>3, <1>4, <1>8 DEF k

\* The buffer from its end: the digits of the quotient, then the last one.
LEMMA ReverseFirst ==
    ASSUME NEW z \in Seq(DigitChars), NEW t \in Seq(DigitChars), NEW d \in DigitChars
    PROVE  z \o Reverse(<<d>> \o t) = Append(z \o Reverse(t), d)
<1>. DEFINE s == <<d>> \o t
            r == Reverse(s)
            q == Reverse(t)
<1>1. s \in Seq(DigitChars) /\ Len(s) = Len(t) + 1 /\ s[1] = d /\ Len(t) \in Nat
  OBVIOUS
<1>2. \A i \in 1 .. Len(t) : s[i + 1] = t[i]
  OBVIOUS
<1>. HIDE DEF s
<1>3. /\ r \in Seq(DigitChars) /\ Len(r) = Len(s)
      /\ \A i \in 1 .. Len(s) : r[i] = s[(Len(s) - i) + 1]
  BY <1>1, Reversed
<1>4. /\ q \in Seq(DigitChars) /\ Len(q) = Len(t)
      /\ \A i \in 1 .. Len(t) : q[i] = t[(Len(t) - i) + 1]
  BY Reversed
<1>. HIDE DEF r, q
<1>5. r = Append(q, d)
  <2>. DEFINE a == Append(q, d)
  <2>1. /\ a \in Seq(DigitChars) /\ Len(a) = Len(t) + 1 /\ a[Len(t) + 1] = d
        /\ \A i \in 1 .. Len(t) : a[i] = q[i]
    BY <1>4
  <2>. HIDE DEF a
  <2>2. ASSUME NEW i \in 1 .. Len(t) + 1 PROVE r[i] = a[i]
    <3>1. CASE i = Len(t) + 1
      <4>1. (Len(s) - i) + 1 = 1 /\ i \in 1 .. Len(s)
        BY <1>1, <3>1
      <4>2. r[i] = s[1]
        BY <1>3, <4>1
      <4>. QED BY <1>1, <2>1, <3>1, <4>2
    <3>2. CASE i # Len(t) + 1
      <4>1. i \in 1 .. Len(t) /\ i \in 1 .. Len(s) /\ (Len(t) - i) + 1 \in 1 .. Len(t)
        BY <1>1, <3>2
      <4>2. (Len(s) - i) + 1 = ((Len(t) - i) + 1) + 1
        BY <1>1
      <4>3. r[i] = t[(Len(t) - i) + 1]
        BY <1>2, <1>3, <4>1, <4>2
      <4>. QED BY <1>4, <2>1, <4>1, <4>3
    <3>. QED BY <3>1, <3>2
  <2>3. Len(r) = Len(a) /\ \A i \in 1 .. Len(a) : r[i] = a[i]
    BY <1>1, <1>3, <2>1, <2>2
  <2>4. r \in Seq(Char) /\ a \in Seq(Char)
    <3>1. DigitChars \subseteq Char
      BY DigitCharsTyped
    <3>2. r \in Seq(Char)
      BY <1>3, <3>1
    <3>3. a \in Seq(Char)
      BY <2>1, <3>1
    <3>. QED BY <3>2, <3>3
  <2>5. r = a
    BY <2>3, <2>4, SameText
  <2>. QED BY <2>5 DEF a
<1>6. z \o Append(q, d) = Append(z \o q, d)
  BY <1>4
<1>. QED BY <1>5, <1>6 DEF r, q, s

\* The digits of n, after any text that reads as zero, read as n.
LEMMA BufferedReadBack ==
    ASSUME NEW b \in Bases, NEW z \in Seq(DigitChars), Reads(z, b, 0)
    PROVE  \A n \in Word : Reads(z \o Reverse(Buffered(b, n)), b, n)
<1>. DEFINE T == {n \in Nat : n \in Word => Reads(z \o Reverse(Buffered(b, n)), b, n)}
<1>0. b \in Nat /\ DigitChars \subseteq Char
  BY DigitCharsTyped DEF Bases
<1>1. ASSUME NEW n \in Nat, \A m \in 0 .. n - 1 : m \in T, n \in Word
      PROVE  Reads(z \o Reverse(Buffered(b, n)), b, n)
  <2>. DEFINE c == BASE16_CHARS[(n % b) + 1]
              t == IF n \div b = 0 THEN <<>> ELSE Buffered(b, n \div b)
              m == n \div b
              d == n % b
  <2>1. /\ m \in Nat /\ m <= n /\ (m # 0 => m < n) /\ d \in 0 .. b - 1 /\ d + 1 \in 1 .. 16
        /\ n = m * b + d
    BY Divided
  <2>2. d \in 0 .. 15 /\ d \in Nat
    BY <1>0, <2>1
  <2>3. c \in DigitChars /\ Digit(c) = d
    BY <2>1, <2>2, DigitCharsTyped, DigitReadBack
  <2>4. m \in Word /\ Buffered(b, n) = <<c>> \o t
    BY <1>1, BufferedIs
  <2>5. Buffered(b, m) \in Seq(DigitChars)
    BY <2>4, BufferedIs
  <2>6. t \in Seq(DigitChars) /\ Reverse(t) \in Seq(DigitChars)
    <3>1. t \in Seq(DigitChars)
      BY <2>5
    <3>. HIDE DEF t
    <3>. QED BY <3>1, Reversed
  <2>7. Reads(z \o Reverse(t), b, m)
    <3>1. CASE m = 0
      <4>1. t = <<>> /\ Reverse(t) = <<>>
        <5>1. t = <<>>
          BY <3>1
        <5>2. Len(t) = 0
          BY <5>1
        <5>. HIDE DEF t
        <5>3. Len(Reverse(t)) = 0
          BY <2>6, <5>2, Reversed
        <5>. QED BY <2>6, <5>1, <5>3
      <4>2. z \o Reverse(t) = z
        BY <4>1
      <4>. HIDE DEF m, t
      <4>. QED BY <3>1, <4>2
    <3>2. CASE m # 0
      <4>1. t = Buffered(b, m)
        BY <3>2
      <4>2. m \in 0 .. n - 1
        BY <2>1, <3>2
      <4>3. Reads(z \o Reverse(Buffered(b, m)), b, m)
        BY <1>1, <2>4, <4>2
      <4>. HIDE DEF m, t
      <4>. QED BY <4>1, <4>3
    <3>. QED BY <3>1, <3>2
  <2>. HIDE DEF c, t, m, d
  <2>8. z \o Reverse(Buffered(b, n)) = Append(z \o Reverse(t), c)
    BY <2>3, <2>4, <2>6, ReverseFirst
  <2>9. z \o Reverse(t) \in Seq(Char) /\ c \in Char
    BY <1>0, <2>3, <2>6
  <2>10. Reads(Append(z \o Reverse(t), c), b, m * b + d)
    BY <1>0, <2>2, <2>3, <2>7, <2>9, ReadsAppend
  <2>. QED BY <2>1, <2>8, <2>10
<1>2. \A n \in Nat : (\A m \in 0 .. n - 1 : m \in T) => n \in T
  BY <1>1
<1>3. Nat \subseteq T
  <2>. HIDE DEF T
  <2>. QED BY <1>2, StrongInduction
<1>. QED BY <1>3, WordTyped

\* output_num: digits only, as many as asked for, and they read as the number.
LEMMA OutputNum ==
    ASSUME NEW b \in Bases, NEW n \in Word, NEW padding \in Nat
    PROVE  LET t == output_num(b, n, padding)
           IN  /\ t \in Seq(DigitChars) /\ Len(t) >= padding /\ Len(t) > 0
               /\ Value(t, b) = n
<1>. DEFINE f == Buffered(b, n)
            z == Zeros(padding - Len(f))
            r == Reverse(f)
<1>0. b \in Nat
  BY DEF Bases
<1>1. f \in Seq(DigitChars) /\ Len(f) \in Nat \ {0}
  BY BufferedIs, BufferedLen
<1>2. /\ z \in Seq(DigitChars) /\ Reads(z, b, 0)
      /\ Len(z) = IF padding - Len(f) < 0 THEN 0 ELSE padding - Len(f)
  <2>. DEFINE k == padding - Len(f)
  <2>1. k \in Int
    BY <1>1
  <2>. HIDE DEF k
  <2>2. /\ Zeros(k) \in Seq(DigitChars) /\ Reads(Zeros(k), b, 0)
        /\ Len(Zeros(k)) = IF k < 0 THEN 0 ELSE k
    BY <1>0, <2>1, ZerosTyped
  <2>. QED BY <2>2 DEF k
<1>3. r \in Seq(DigitChars) /\ Len(r) = Len(f)
  BY <1>1, Reversed
<1>4. Reads(z \o r, b, n)
  BY <1>2, BufferedReadBack
<1>5. output_num(b, n, padding) = z \o r
  BY DEF output_num
<1>. HIDE DEF f, z, r
<1>6. z \o r \in Seq(DigitChars) /\ Len(z \o r) = Len(z) + Len(f) /\ Len(z \o r) \in Nat
  BY <1>1, <1>2, <1>3
<1>7. Value(z \o r, b) = n
  BY <1>4, <1>6, ReadsValue
<1>. QED BY <1>1, <1>2, <1>5, <1>6, <1>7

\* The quotient of a division is the only one with such a remainder.
LEMMA QuotientIs ==
    ASSUME NEW n \in Nat, NEW x \in Nat \ {0}, NEW a \in Nat, NEW y \in 0 .. x - 1,
           n = a * x + y
    PROVE  n \div x = a /\ n % x = y
<1>. DEFINE q == n \div x
            r == n % x
<1>1. q \in Int /\ r \in 0 .. x - 1 /\ n = x * q + r
  OBVIOUS
<1>. HIDE DEF q, r
<1>2. x * (a - q) = r - y
  BY <1>1
<1>3. ~ (a > q)
  <2>. SUFFICES ASSUME a - q >= 1 PROVE FALSE
    BY <1>1
  <2>1. x * (a - q) >= x
    BY <1>1
  <2>. QED BY <1>1, <1>2, <2>1
<1>4. ~ (a < q)
  <2>. SUFFICES ASSUME q - a >= 1 PROVE FALSE
    BY <1>1
  <2>1. x * (q - a) >= x
    BY <1>1
  <2>2. x * (q - a) = y - r
    BY <1>1
  <2>. QED BY <1>1, <2>1, <2>2
<1>5. a = q
  BY <1>1, <1>3, <1>4
<1>6. y = r
  BY <1>1, <1>2, <1>5
<1>. QED BY <1>5, <1>6 DEF q, r

\* A shift by four more bits.
LEMMA ShiftedAgain ==
    ASSUME NEW n \in Nat, NEW x \in Nat \ {0}
    PROVE  /\ n \div x \in Nat /\ n \div (16 * x) \in Nat
           /\ n \div x = (n \div (16 * x)) * 16 + ((n \div x) % 16)
           /\ (n \div x) % 16 \in 0 .. 15
<1>. DEFINE q == n \div x
            r == n % x
            a == q \div 16
            c == q % 16
<1>1. q \in Nat /\ r \in 0 .. x - 1 /\ n = x * q + r
  OBVIOUS
<1>. HIDE DEF q, r
<1>2. a \in Nat /\ c \in 0 .. 15 /\ q = 16 * a + c
  BY <1>1
<1>. HIDE DEF a, c
<1>3. c * x + r \in 0 .. (16 * x) - 1
  <2>1. c * x \in Nat /\ c * x <= 15 * x
    BY <1>2
  <2>. QED BY <1>1, <2>1
<1>4. n = a * (16 * x) + (c * x + r)
  <2>1. x * (16 * a + c) = a * (16 * x) + c * x
    BY <1>2
  <2>. QED BY <1>1, <1>2, <2>1
<1>5. n \div (16 * x) = a
  <2>. DEFINE w == 16 * x
              y == c * x + r
  <2>1. w \in Nat \ {0} /\ y \in 0 .. w - 1 /\ n = a * w + y
    BY <1>3, <1>4
  <2>. HIDE DEF w, y
  <2>2. n \div w = a
    BY <1>2, <2>1, QuotientIs
  <2>. QED BY <2>2 DEF w
<1>6. /\ q \in Nat /\ n \div (16 * x) \in Nat
      /\ q = (n \div (16 * x)) * 16 + c /\ c \in 0 .. 15
  BY <1>1, <1>2, <1>5
<1>. QED BY <1>6, Zenon DEF q, c

\* Every conversion to uint32_t is a word.
LEMMA AsWordTyped ==
    ASSUME NEW n \in Int
    PROVE  AsWord(n) \in Word
  BY WordTyped DEF AsWord, Word

\* An int and its magnitude.
LEMMA IntAsWord ==
    ASSUME NEW n \in 0 - (WordValues \div 2) .. (WordValues \div 2) - 1
    PROVE  /\ n >= 0 => AsWord(n) = n
           /\ n < 0 => AsWord(0 - AsWord(n)) = 0 - n
<1>. DEFINE W == WordValues
<1>1. W \in Nat \ {0} /\ W \div 2 \in Nat /\ 2 * (W \div 2) <= W
  BY WordTyped
<1>. HIDE DEF W
<1>2. n \in Int /\ n < W /\ 0 - n <= W \div 2
  BY <1>1 DEF W
<1>3. ASSUME n >= 0 PROVE n % W = n
  <2>1. n \in Nat /\ n \in 0 .. W - 1 /\ n = 0 * W + n
    BY <1>1, <1>2, <1>3
  <2>. QED BY <1>1, <2>1, QuotientIs
<1>4. ASSUME n < 0 PROVE (0 - (n % W)) % W = 0 - n
  BY <1>1, <1>2, <1>4
<1>. QED BY <1>3, <1>4 DEF AsWord, W

\* UART_Send_Hex: after 0x, the digits of the word.
LEMMA SendHex ==
    ASSUME NEW n \in Word
    PROVE  LET t == [i \in 1 .. HexDigits |->
                        UpperHex[((n \div Pow16[HexDigits - i]) % 16) + 1]]
           IN  /\ t \in Seq(NumberChars) /\ Value(t, 16) = n
               /\ UART_Send_Hex(n) = <<"0", "x">> \o t
<1>. DEFINE N == HexDigits
            h == [i \in 0 .. N |-> n \div Pow16[N - i]]
            d(i) == (n \div Pow16[N - i]) % 16
            t == [i \in 1 .. N |-> UpperHex[d(i) + 1]]
<1>1. N \in Nat \ {0} /\ n \in Nat
  BY Weights, WordTyped
<1>2. \A i \in 0 .. N : Pow16[N - i] \in Nat \ {0} /\ n \div Pow16[N - i] \in Nat
  <2>. SUFFICES ASSUME NEW i \in 0 .. N
                PROVE  Pow16[N - i] \in Nat \ {0} /\ n \div Pow16[N - i] \in Nat
    OBVIOUS
  <2>1. N - i \in 0 .. HexDigits
    BY <1>1
  <2>2. Pow16[N - i] \in Nat \ {0}
    BY <2>1, Weights
  <2>. QED BY <1>1, <2>2, ShiftedAgain
<1>3. \A i \in 1 .. N : /\ d(i) \in 0 .. 15
                        /\ n \div Pow16[N - i] = (n \div Pow16[N - (i - 1)]) * 16 + d(i)
  <2>. SUFFICES ASSUME NEW i \in 1 .. N
                PROVE  /\ d(i) \in 0 .. 15
                       /\ n \div Pow16[N - i] = (n \div Pow16[N - (i - 1)]) * 16 + d(i)
    OBVIOUS
  <2>1. N - (i - 1) \in 1 .. HexDigits /\ (N - (i - 1)) - 1 = N - i /\ i \in 0 .. N
    BY <1>1
  <2>. DEFINE x == Pow16[N - i]
  <2>2. Pow16[N - (i - 1)] = 16 * x
    BY <2>1, Weights
  <2>3. x \in Nat \ {0}
    BY <1>2, <2>1
  <2>. HIDE DEF x
  <2>4. (n \div x) % 16 \in 0 .. 15 /\ n \div x = (n \div (16 * x)) * 16 + ((n \div x) % 16)
    BY <1>1, <2>3, ShiftedAgain
  <2>5. d(i) = (n \div x) % 16
    BY DEF x
  <2>. HIDE DEF d
  <2>. QED BY <2>2, <2>4, <2>5 DEF x
<1>4. DOMAIN UpperHex = 1 .. 16
  BY DEF UpperHex
<1>5. \A i \in 1 .. N : /\ UpperHex[d(i) + 1] \in NumberChars
                        /\ Digit(UpperHex[d(i) + 1]) = d(i)
  <2>. SUFFICES ASSUME NEW i \in 1 .. N
                PROVE  UpperHex[d(i) + 1] \in NumberChars /\ Digit(UpperHex[d(i) + 1]) = d(i)
    OBVIOUS
  <2>1. d(i) \in 0 .. 15
    BY <1>3
  <2>. HIDE DEF d
  <2>2. d(i) + 1 \in DOMAIN UpperHex
    BY <1>4, <2>1
  <2>3. UpperHex[d(i) + 1] \in Range(UpperHex)
    BY <2>2, Zenon DEF Range
  <2>. QED BY <2>1, <2>3, DigitReadBack DEF NumberChars
<1>. HIDE DEF d
<1>6. /\ t \in Seq(NumberChars) /\ Len(t) = N
      /\ \A i \in 1 .. N : t[i] = UpperHex[d(i) + 1]
  BY <1>1, <1>5
<1>7. h \in [0 .. N -> Nat]
  BY <1>2
<1>8. h[0] = 0
  <2>1. 0 \in 0 .. N /\ N - 0 = HexDigits
    BY <1>1
  <2>2. h[0] = n \div WordValues
    BY <2>1 DEF WordValues
  <2>3. n \in 0 .. WordValues - 1 /\ WordValues \in Nat \ {0} /\ n = 0 * WordValues + n
    BY <1>1, WordTyped DEF Word
  <2>4. n \div WordValues = 0
    BY <1>1, <2>3, QuotientIs
  <2>. QED BY <2>2, <2>4
<1>9. h[N] = n
  <2>1. N \in 0 .. N /\ N - N = 0
    BY <1>1
  <2>2. h[N] = n \div 1
    BY <2>1, Weights
  <2>. QED BY <1>1, <2>2
<1>10. \A i \in 1 .. N : h[i] = h[i - 1] * 16 + Digit(t[i])
  <2>. SUFFICES ASSUME NEW i \in 1 .. N PROVE h[i] = h[i - 1] * 16 + Digit(t[i])
    OBVIOUS
  <2>1. h[i] = n \div Pow16[N - i] /\ h[i - 1] = n \div Pow16[N - (i - 1)]
    BY <1>1
  <2>. HIDE DEF h, t
  <2>2. Digit(t[i]) = d(i)
    BY <1>5, <1>6
  <2>. QED BY <1>3, <2>1, <2>2
<1>11. UART_Send_Hex(n) = <<"0", "x">> \o t
  BY DEF UART_Send_Hex, d
<1>12. Reads(t, 16, n)
  <2>. HIDE DEF h, t
  <2>. QED BY <1>6, <1>7, <1>8, <1>9, <1>10 DEF Reads
<1>13. Value(t, 16) = n
  <2>. HIDE DEF t
  <2>. QED BY <1>1, <1>6, <1>12, ReadsValue
<1>. QED BY <1>6, <1>11, <1>13, Zenon DEF d

\* What is read off the screen for a number: its characters are visible, it is
\* as wide as asked for, and it reads as the argument.
Readable(t, conv, padding, v) ==
    t \in Seq(NumberChars) /\ Len(t) >= padding /\ ReadBack(t, conv) = v

\* Digits, alone or after a prefix of two characters.
LEMMA Prefixed ==
    ASSUME NEW t \in Seq(NumberChars), NEW a \in NumberChars, NEW b \in NumberChars
    PROVE  LET p == <<a, b>> \o t
           IN  p \in Seq(NumberChars) /\ Len(p) = Len(t) + 2 /\ SubSeq(p, 3, Len(p)) = t
<1>. DEFINE p == <<a, b>> \o t
            s == SubSeq(p, 3, Len(p))
<1>1. /\ p \in Seq(NumberChars) /\ Len(p) = Len(t) + 2 /\ Len(t) \in Nat
      /\ \A i \in 1 .. Len(t) : p[i + 2] = t[i]
  OBVIOUS
<1>. HIDE DEF p
<1>2. s \in Seq(NumberChars) /\ Len(s) = Len(t) /\ \A i \in 1 .. Len(t) : s[i] = p[i + 2]
  BY <1>1
<1>. HIDE DEF s
<1>3. s \in Seq(Char) /\ t \in Seq(Char) /\ \A i \in 1 .. Len(t) : s[i] = t[i]
  BY <1>1, <1>2, NumberCharsTyped
<1>4. s = t
  BY <1>2, <1>3, SameText
<1>. QED BY <1>1, <1>4 DEF p, s

\* output_signed prints every int, the smallest one too.
LEMMA OutputSigned ==
    ASSUME NEW n \in 0 - (WordValues \div 2) .. (WordValues \div 2) - 1,
           NEW padding \in Nat, NEW conv \in {"d", "0d"}
    PROVE  Readable(output_signed(n, padding), conv, padding, n)
<1>. DEFINE k == IF padding > 0 THEN padding - 1 ELSE 0
            w == AsWord(0 - AsWord(n))
            u == output_num(10, w, k)
            t == output_num(10, AsWord(n), padding)
<1>1. WordValues \in Nat \ {0} /\ WordValues \div 2 \in Nat
  BY WordTyped
<1>2. n \in Int /\ k \in Nat /\ 10 \in Bases
  BY <1>1 DEF Bases
<1>3. AsWord(n) \in Word /\ w \in Word
  <2>1. AsWord(n) \in Word
    BY <1>2, AsWordTyped
  <2>2. AsWord(n) \in Nat
    BY <2>1, WordTyped
  <2>3. 0 - AsWord(n) \in Int
    BY <2>2
  <2>. QED BY <2>1, <2>3, AsWordTyped
<1>4. u \in Seq(DigitChars) /\ Len(u) >= k /\ Len(u) > 0 /\ Value(u, 10) = w
  <2>. HIDE DEF w, k
  <2>. QED BY <1>2, <1>3, OutputNum
<1>5. t \in Seq(DigitChars) /\ Len(t) >= padding /\ Len(t) > 0 /\ Value(t, 10) = AsWord(n)
  BY <1>2, <1>3, OutputNum
<1>6. ReadBack(output_signed(n, padding), conv) =
         IF Head(output_signed(n, padding)) = "-"
         THEN 0 - Value(Tail(output_signed(n, padding)), 10)
         ELSE Value(output_signed(n, padding), 10)
  BY DEF ReadBack
<1>7. "-" \notin DigitChars
  BY DEF DigitChars, Range, BASE16_CHARS
<1>8. CASE n < 0
  <2>. DEFINE s == <<"-">> \o u
  <2>1. output_signed(n, padding) = s
    BY <1>8 DEF output_signed
  <2>2. w = 0 - n
    BY <1>8, IntAsWord
  <2>. HIDE DEF u, w
  <2>3. u \in Seq(NumberChars) /\ "-" \in NumberChars
    BY <1>4 DEF NumberChars
  <2>4. /\ s \in Seq(NumberChars) /\ Len(s) = Len(u) + 1 /\ Head(s) = "-"
        /\ Tail(s) \in Seq(NumberChars) /\ Len(Tail(s)) = Len(u)
        /\ \A i \in 1 .. Len(u) : Tail(s)[i] = u[i]
    BY <2>3
  <2>5. Tail(s) \in Seq(Char) /\ u \in Seq(Char)
    BY <2>3, <2>4, NumberCharsTyped
  <2>. HIDE DEF s
  <2>6. Tail(s) = u
    BY <2>4, <2>5, SameText
  <2>7. Len(s) >= padding
    BY <1>4, <2>3, <2>4
  <2>8. ReadBack(s, conv) = 0 - Value(u, 10)
    BY <1>6, <2>1, <2>4, <2>6
  <2>9. ReadBack(s, conv) = n
    BY <1>2, <1>4, <2>2, <2>8
  <2>. QED BY <2>1, <2>4, <2>7, <2>9 DEF Readable
<1>9. CASE n >= 0
  <2>1. output_signed(n, padding) = t
    BY <1>2, <1>9 DEF output_signed
  <2>2. AsWord(n) = n
    BY <1>9, IntAsWord
  <2>. HIDE DEF t
  <2>3. t \in Seq(NumberChars) /\ Head(t) \in DigitChars
    BY <1>5 DEF NumberChars
  <2>4. ReadBack(t, conv) = n
    BY <1>5, <1>6, <1>7, <2>1, <2>2, <2>3
  <2>. QED BY <1>5, <2>1, <2>3, <2>4 DEF Readable
<1>. QED BY <1>2, <1>8, <1>9

\* UART_Send_Int: the loop, or the zero it is not run for.
LEMMA SendInt ==
    ASSUME NEW n \in Word
    PROVE  UART_Send_Int(n) \in Seq(DigitChars) /\ Value(UART_Send_Int(n), 10) = n
<1>0. 10 \in Bases /\ n \in Nat
  BY WordTyped DEF Bases
<1>1. CASE n = 0
  <2>0. PICK k \in Int : k = 1
    OBVIOUS
  <2>. DEFINE z == Zeros(k)
              b == 10
  <2>1. z \in Seq(DigitChars) /\ Len(z) = 1 /\ Reads(z, b, 0)
    <3>1. b \in Nat
      OBVIOUS
    <3>. HIDE DEF b
    <3>2. z \in Seq(DigitChars) /\ Reads(z, b, 0)
      BY <3>1, ZerosTyped
    <3>3. Len(z) = IF k < 0 THEN 0 ELSE k
      BY <3>1, ZerosTyped
    <3>. HIDE DEF z
    <3>. QED BY <2>0, <3>2, <3>3
  <2>2. UART_Send_Int(n) = z
    BY <1>1, <2>0 DEF UART_Send_Int, Zeros
  <2>. HIDE DEF z
  <2>3. Value(z, b) = 0
    <3>. HIDE DEF b
    <3>. QED BY <2>1, ReadsValue
  <2>. QED BY <1>1, <2>1, <2>2, <2>3
<1>2. CASE n # 0
  <2>. DEFINE f == Buffered(10, n)
              z == Zeros(0 - Len(f))
              r == Reverse(f)
  <2>1. f \in Seq(DigitChars) /\ Len(f) \in Nat \ {0}
    BY <1>0, BufferedIs, BufferedLen
  <2>2. z \in Seq(DigitChars) /\ Len(z) = 0
    <3>1. 0 - Len(f) \in Int /\ 0 - Len(f) < 0
      BY <2>1
    <3>. QED BY <3>1, ZerosTyped
  <2>3. r \in Seq(DigitChars)
    BY <2>1, Reversed
  <2>4. output_num(10, n, 0) = z \o r
    BY DEF output_num
  <2>5. UART_Send_Int(n) = r
    BY <1>2 DEF UART_Send_Int
  <2>6. Value(output_num(10, n, 0), 10) = n
    BY <1>0, OutputNum
  <2>. HIDE DEF z, r
  <2>7. z \o r = r
    BY <2>2, <2>3
  <2>. QED BY <2>3, <2>4, <2>5, <2>6, <2>7
<1>. QED BY <1>1, <1>2

\* The value that is to be read back: an int, or the word the argument becomes.
Meant(conv, arg) == IF conv \in {"d", "0d"} THEN arg ELSE AsWord(arg)

\* The conversions of printk and the printers of the UART.
Conversions == {"b", "u", "x", "p", "d", "0x", "0d", "int", "hex"}

\* Every conversion prints a number that reads as its argument.
LEMMA NumberReadable ==
    ASSUME NEW conv \in Conversions, NEW arg \in Arguments(conv), NEW padding \in Nat,
           conv \notin {"0x", "0d"} => padding = 0
    PROVE  Readable(NumberText(conv, arg, padding), conv, padding, Meant(conv, arg))
<1>1. DigitChars \subseteq NumberChars
  BY DEF NumberChars
<1>2. "0" \in NumberChars /\ "b" \in NumberChars /\ "x" \in NumberChars
  <2>1. BASE16_CHARS[1] = "0" /\ BASE16_CHARS[12] = "b" /\ 1 \in 1 .. 16 /\ 12 \in 1 .. 16
    BY DEF BASE16_CHARS
  <2>2. "0" \in DigitChars /\ "b" \in DigitChars
    BY <2>1, DigitCharsTyped
  <2>. QED BY <2>2 DEF NumberChars
<1>3. 2 \in Bases /\ 10 \in Bases /\ 16 \in Bases /\ 0 \in Nat
  BY DEF Bases
<1>4. CASE conv \in {"d", "0d"}
  <2>1. arg \in 0 - (WordValues \div 2) .. (WordValues \div 2) - 1
    BY <1>4 DEF Arguments
  <2>2. NumberText(conv, arg, padding) = output_signed(arg, padding)
    <3>1. CASE conv = "d"
      BY <3>1 DEF NumberText, PrintedNumber
    <3>2. CASE conv = "0d"
      BY <3>2 DEF NumberText, PrintedNumber
    <3>. QED BY <1>4, <3>1, <3>2
  <2>3. Meant(conv, arg) = arg
    BY <1>4 DEF Meant
  <2>. QED BY <1>4, <2>1, <2>2, <2>3, OutputSigned
<1>5. CASE conv \in {"b", "u", "x", "p", "0x"}
  <2>. DEFINE w == AsWord(arg)
  <2>1. arg \in Int
    BY <1>5 DEF Arguments
  <2>2. w \in Word
    BY <2>1, AsWordTyped
  <2>3. Meant(conv, arg) = w
    BY <1>5 DEF Meant
  <2>. HIDE DEF w
  <2>4. ASSUME NEW b \in Bases
        PROVE  /\ output_num(b, w, padding) \in Seq(NumberChars)
               /\ Len(output_num(b, w, padding)) >= padding
               /\ Value(output_num(b, w, padding), b) = w
    BY <1>1, <2>2, OutputNum
  <2>5. CASE conv = "u"
    <3>. DEFINE t == output_num(10, w, padding)
    <3>1. NumberText(conv, arg, padding) = t
      BY <2>5 DEF NumberText, PrintedNumber, w
    <3>2. ReadBack(t, conv) = Value(t, 10)
      BY <2>5 DEF ReadBack
    <3>. QED BY <1>3, <2>3, <2>4, <3>1, <3>2 DEF Readable
  <2>6. CASE conv \in {"x", "0x"}
    <3>. DEFINE t == output_num(16, w, padding)
    <3>1. NumberText(conv, arg, padding) = t
      <4>1. CASE conv = "x"
        BY <4>1 DEF NumberText, PrintedNumber, w
      <4>2. CASE conv = "0x"
        BY <4>2 DEF NumberText, PrintedNumber, w
      <4>. QED BY <2>6, <4>1, <4>2
    <3>2. ReadBack(t, conv) = Value(t, 16)
      BY <2>6 DEF ReadBack
    <3>. QED BY <1>3, <2>3, <2>4, <3>1, <3>2 DEF Readable
  <2>7. CASE conv = "p"
    <3>. DEFINE t == output_num(16, w, padding)
                q == <<"0", "x">> \o t
    <3>1. NumberText(conv, arg, padding) = q
      BY <2>7 DEF NumberText, PrintedNumber, w
    <3>2. ReadBack(q, conv) = Value(SubSeq(q, 3, Len(q)), 16)
      BY <2>7 DEF ReadBack
    <3>3. t \in Seq(NumberChars) /\ Len(t) >= padding /\ Value(t, 16) = w
      BY <1>3, <2>4
    <3>. HIDE DEF t
    <3>4. q \in Seq(NumberChars) /\ Len(q) = Len(t) + 2 /\ SubSeq(q, 3, Len(q)) = t
      BY <1>2, <3>3, Prefixed
    <3>5. Len(q) >= padding
      BY <3>3, <3>4
    <3>. QED BY <2>3, <3>1, <3>2, <3>3, <3>4, <3>5 DEF Readable
  <2>8. CASE conv = "b"
    <3>. DEFINE t == output_num(2, w, padding)
                q == <<"0", "b">> \o t
    <3>1. NumberText(conv, arg, padding) = q
      BY <2>8 DEF NumberText, PrintedNumber, w
    <3>2. ReadBack(q, conv) = Value(SubSeq(q, 3, Len(q)), 2)
      BY <2>8 DEF ReadBack
    <3>3. t \in Seq(NumberChars) /\ Len(t) >= padding /\ Value(t, 2) = w
      BY <1>3, <2>4
    <3>. HIDE DEF t
    <3>4. q \in Seq(NumberChars) /\ Len(q) = Len(t) + 2 /\ SubSeq(q, 3, Len(q)) = t
      BY <1>2, <3>3, Prefixed
    <3>5. Len(q) >= padding
      BY <3>3, <3>4
    <3>. QED BY <2>3, <3>1, <3>2, <3>3, <3>4, <3>5 DEF Readable
  <2>. QED BY <1>5, <2>5, <2>6, <2>7, <2>8
<1>6. CASE conv \in {"int", "hex"}
  <2>1. arg \in Word /\ padding = 0
    BY <1>6 DEF Arguments
  <2>2. Meant(conv, arg) = arg
    <3>1. arg \in Nat /\ WordValues \in Nat \ {0} /\ arg \in 0 .. WordValues - 1
          /\ arg = 0 * WordValues + arg
      BY <2>1, WordTyped DEF Word
    <3>2. arg % WordValues = arg
      BY <3>1, QuotientIs
    <3>. QED BY <1>6, <3>2 DEF Meant, AsWord
  <2>3. CASE conv = "int"
    <3>. DEFINE t == UART_Send_Int(arg)
    <3>1. NumberText(conv, arg, padding) = t
      BY <2>3 DEF NumberText
    <3>2. ReadBack(t, conv) = Value(t, 10)
      BY <2>3 DEF ReadBack
    <3>3. t \in Seq(NumberChars) /\ Value(t, 10) = arg
      BY <1>1, <2>1, SendInt
    <3>. HIDE DEF t
    <3>4. Len(t) >= padding
      BY <2>1, <3>3
    <3>. QED BY <2>2, <3>1, <3>2, <3>3, <3>4 DEF Readable
  <2>4. CASE conv = "hex"
    <3>. DEFINE t == [i \in 1 .. HexDigits |->
                         UpperHex[((arg \div Pow16[HexDigits - i]) % 16) + 1]]
                q == <<"0", "x">> \o t
    <3>1. UART_Send_Hex(arg) = q /\ t \in Seq(NumberChars) /\ Value(t, 16) = arg
      BY <2>1, SendHex, Zenon
    <3>. HIDE DEF t
    <3>2. NumberText(conv, arg, padding) = q
      BY <2>4, <3>1 DEF NumberText
    <3>3. ReadBack(q, conv) = Value(SubSeq(q, 3, Len(q)), 16)
      BY <2>4 DEF ReadBack
    <3>4. q \in Seq(NumberChars) /\ Len(q) = Len(t) + 2 /\ SubSeq(q, 3, Len(q)) = t
      BY <1>2, <3>1, Prefixed
    <3>5. Len(q) >= padding
      BY <2>1, <3>1, <3>4
    <3>. HIDE DEF q
    <3>. QED BY <2>2, <3>1, <3>2, <3>3, <3>4, <3>5 DEF Readable
  <2>. QED BY <1>6, <2>3, <2>4
<1>. QED BY <1>4, <1>5, <1>6 DEF Conversions

\* printk_uart_putc sends the characters of a number as they are.
LEMMA PutNumber ==
    ASSUME NEW t \in Seq(NumberChars)
    PROVE  LET o == PutcUart(t \o <<"\n">>)
           IN  /\ o \in Seq(Char) /\ Len(o) = Len(t) + 2
               /\ \A i \in 1 .. Len(t) : o[i] = t[i]
<1>. DEFINE s == t \o <<"\n">>
            N == Len(t)
<1>1. "\n" \in Char /\ "\r" \in Char
  BY CharAssumption, Zenon
<1>2. t \in Seq(Char) /\ \A i \in 1 .. N : t[i] \in Char /\ t[i] # "\n"
  BY NumberCharsTyped
<1>3. /\ s \in Seq(Char) /\ Len(s) = N + 1 /\ s[N + 1] = "\n" /\ N \in Nat
      /\ \A i \in 1 .. N : s[i] = t[i]
  BY <1>1, <1>2
<1>4. PICK f : Sending(f, s) /\ PutcUart(s) = f[Len(s)]
  BY <1>3, PutcRun
<1>. HIDE DEF s, N
<1>5. /\ f[0] = <<>> /\ \A i \in 0 .. N + 1 : f[i] \in Seq(Char)
      /\ \A i \in 1 .. N + 1 : f[i] = f[i - 1] \o Put(s[i])
  BY <1>3, <1>4 DEF Sending
<1>. DEFINE T == {n \in Nat : Len(f[n]) = n /\ \A i \in 1 .. n : f[n][i] = t[i]}
<1>6. 0 \in T
  BY <1>5
<1>7. ASSUME NEW n \in Nat, n < N, n \in T PROVE n + 1 \in T
  <2>. DEFINE a == f[n]
              c == t[n + 1]
  <2>1. n + 1 \in 1 .. N /\ n + 1 \in 1 .. N + 1 /\ n \in 0 .. N + 1 /\ (n + 1) - 1 = n
    BY <1>3, <1>7
  <2>2. s[n + 1] = c /\ c \in Char /\ Put(c) = <<c>>
    BY <1>2, <1>3, <2>1 DEF Put
  <2>3. f[n + 1] = a \o Put(s[n + 1])
    BY <1>5, <2>1
  <2>4. a \in Seq(Char) /\ Len(a) = n /\ \A i \in 1 .. n : a[i] = t[i]
    BY <1>5, <1>7, <2>1
  <2>. HIDE DEF a, c
  <2>. DEFINE q == a \o <<c>>
  <2>5. q \in Seq(Char) /\ Len(q) = n + 1 /\ q[n + 1] = c /\ \A i \in 1 .. n : q[i] = a[i]
    BY <2>2, <2>4
  <2>6. f[n + 1] = q
    BY <2>2, <2>3
  <2>. HIDE DEF q
  <2>7. \A i \in 1 .. n + 1 : q[i] = t[i]
    <3>1. \A i \in 1 .. n + 1 : i = n + 1 \/ i \in 1 .. n
      OBVIOUS
    <3>. QED BY <2>4, <2>5, <3>1 DEF c
  <2>. QED BY <2>5, <2>6, <2>7
<1>8. N \in T
  <2>. HIDE DEF T
  <2>1. \A n \in 0 .. N : n \in T
    BY <1>3, <1>6, <1>7, UpTo
  <2>. QED BY <1>3, <2>1
<1>9. f[N + 1] = f[N] \o <<"\r", "\n">>
  <2>1. N + 1 \in 1 .. N + 1 /\ (N + 1) - 1 = N
    BY <1>3
  <2>2. Put(s[N + 1]) = <<"\r", "\n">>
    BY <1>3 DEF Put
  <2>. QED BY <1>5, <2>1, <2>2
<1>. DEFINE a == f[N]
            o == a \o <<"\r", "\n">>
<1>10. a \in Seq(Char) /\ Len(a) = N /\ \A i \in 1 .. N : a[i] = t[i]
  BY <1>3, <1>5, <1>8
<1>. HIDE DEF a
<1>11. o \in Seq(Char) /\ Len(o) = N + 2 /\ \A i \in 1 .. N : o[i] = a[i]
  BY <1>1, <1>3, <1>10
<1>12. PutcUart(s) = o
  BY <1>3, <1>4, <1>9 DEF a
<1>. HIDE DEF o
<1>13. /\ PutcUart(s) \in Seq(Char) /\ Len(PutcUart(s)) = N + 2
       /\ \A i \in 1 .. N : PutcUart(s)[i] = t[i]
  BY <1>10, <1>11, <1>12
<1>. QED BY <1>13 DEF s, N

\* The parts of ProgramsAssumption about a program that prints a number.
LEMMA NumberProgram ==
    ASSUME NEW p \in Programs, p.conv # "none"
    PROVE  /\ p.conv \in Conversions /\ p.arg \in Arguments(p.conv) /\ p.padding \in Nat
           /\ p.conv \notin {"0x", "0d"} => p.padding = 0
           /\ p.text = NumberText(p.conv, p.arg, p.padding) \o <<"\n">>
           /\ ~ p.raw /\ ~ p.asserts
  BY ProgramsAssumption, Zenon DEF Conversions

\* The invariant in terms of what the user reads.
LEMMA InvNumbersReadBack ==
    ASSUME ConsoleInv, HeldBack PROVE NumbersReadBack
<1>. DEFINE p == program
            L == Len(exit_string)
            t == NumberText(p.conv, p.arg, p.padding)
            a == PutcUart(p.text)
            o == Output(p)
            u == SubSeq(printed, 1, Len(printed) - L - 2)
<1>. SUFFICES ASSUME host.pc = "done", lost = 0, p.conv # "none"
              PROVE  ReadBack(u, p.conv) = Meant(p.conv, p.arg) /\ Len(u) >= p.padding
  <2>1. host.pc = "done" => Screen = printed
    BY ScreenLength DEF HeldBack, Ended, ConsoleInv, ConsoleTypes
  <2>. QED BY <2>1 DEF NumbersReadBack, Meant
<1>1. p \in Programs /\ printed \in Seq(Char)
  BY DEF ConsoleInv, ConsoleTypes
<1>2. Readable(t, p.conv, p.padding, Meant(p.conv, p.arg)) /\ p.text = t \o <<"\n">>
  <2>1. /\ p.conv \in Conversions /\ p.arg \in Arguments(p.conv) /\ p.padding \in Nat
        /\ p.conv \notin {"0x", "0d"} => p.padding = 0
        /\ p.text = t \o <<"\n">>
    BY <1>1, NumberProgram, Zenon
  <2>. QED BY <2>1, NumberReadable
<1>3. /\ t \in Seq(NumberChars) /\ Len(t) >= p.padding
      /\ ReadBack(t, p.conv) = Meant(p.conv, p.arg)
  BY <1>2 DEF Readable
<1>0. ~ p.raw /\ ~ p.asserts
  BY <1>1, NumberProgram
<1>4. /\ ~ p.panics /\ Len(printed) = Len(o)
      /\ \A i \in 1 .. Len(printed) : printed[i] = Clean(o[i])
  BY <1>0 DEF ConsoleInv, AllShown, Finished, PrintsByPrintk
<1>5. o = a \o exit_string
  BY <1>0, <1>4 DEF Output
<1>. HIDE DEF p, L, t
<1>6. a \in Seq(Char) /\ Len(a) = Len(t) + 2 /\ \A i \in 1 .. Len(t) : a[i] = t[i]
  BY <1>2, <1>3, PutNumber
<1>. HIDE DEF a
<1>7. L \in Nat /\ L = Len(exit_string) /\ Len(t) \in Nat
  BY <1>3, MarkerTyped DEF L
<1>. HIDE DEF o
<1>8. Len(o) = Len(a) + L /\ \A i \in 1 .. Len(a) : o[i] = a[i]
  <2>1. a \in Seq(Char) /\ exit_string \in Seq(Char) /\ L = Len(exit_string)
    BY <1>6, <1>7, MarkerTyped
  <2>2. /\ Len(o) = Len(a) + L
        /\ \A i \in 1 .. Len(a) : o[i] = a[i]
    BY <1>5, <2>1, Joined
  <2>. QED BY <2>2
<1>9. Len(printed) = Len(t) + 2 + L
  BY <1>4, <1>6, <1>7, <1>8
<1>10. \A i \in 1 .. Len(t) : printed[i] = t[i]
  <2>. SUFFICES ASSUME NEW i \in 1 .. Len(t) PROVE printed[i] = t[i]
    OBVIOUS
  <2>1. i \in 1 .. Len(a) /\ i \in 1 .. Len(printed)
    BY <1>6, <1>7, <1>9
  <2>2. printed[i] = Clean(t[i])
    BY <1>4, <1>6, <1>8, <2>1
  <2>. QED BY <1>3, <2>2, NumberCharsTyped
<1>11. /\ u \in Seq(Char) /\ Len(u) = Len(t)
       /\ \A i \in 1 .. Len(t) : u[i] = printed[i]
  BY <1>1, <1>7, <1>9
<1>12. t \in Seq(Char)
  BY <1>3, NumberCharsTyped
<1>. HIDE DEF u
<1>13. u = t
  BY <1>10, <1>11, <1>12, SameText
<1>. QED BY <1>3, <1>13

(***************************************************************************)
(* Every number that a program prints can be read off the screen again,    *)
(* for every width of a word and every argument.                           *)
(***************************************************************************)
THEOREM NumbersAreReadBack == Spec => []NumbersReadBack
  BY ConsoleInvariant, InvNumbersReadBack, PTL

-----------------------------------------------------------------------------
\* The powers of a base.
Powers(P, b, K) ==
    P \in [0 .. K -> Nat \ {0}] /\ P[0] = 1 /\ \A i \in 1 .. K : P[i] = b * P[i - 1]

\* There are such powers.
LEMMA PowersExist ==
    ASSUME NEW b \in Bases, NEW K \in Nat
    PROVE  \E P : Powers(P, b, K)
<1>. DEFINE S == Nat \ {0}
            g == [i \in 1 .. K |-> [p \in S |-> b * p]]
<1>1. \A p \in S : b * p \in S
  BY DEF Bases
<1>2. Iterations(g, S, K) /\ 1 \in S
  BY <1>1 DEF Iterations
<1>. HIDE DEF S
<1>3. PICK P : RunOf(P, 1, g, S, K)
  <2>. HIDE DEF g
  <2>. QED BY <1>2, RecursionExists, Zenon
<1>4. \A i \in 1 .. K : P[i - 1] \in S
  BY <1>3 DEF RunOf
<1>5. \A i \in 1 .. K : P[i] = b * P[i - 1]
  BY <1>3, <1>4 DEF RunOf
<1>6. Powers(P, b, K)
  BY <1>3, <1>5 DEF RunOf, Powers, S
<1>. QED BY <1>6

\* A number below the i-th power has at most i digits.
LEMMA DigitCount ==
    ASSUME NEW b \in Bases, NEW K \in Nat, NEW P, Powers(P, b, K)
    PROVE  \A i \in 0 .. K : i > 0 => \A n \in Word : n < P[i] => Len(Buffered(b, n)) <= i
<1>. DEFINE T == {i \in Nat : i > 0 => \A n \in Word : n < P[i] => Len(Buffered(b, n)) <= i}
<1>0. /\ \A i \in 0 .. K : P[i] \in Nat \ {0}
      /\ P[0] = 1 /\ \A i \in 1 .. K : P[i] = b * P[i - 1]
  BY DEF Powers
<1>1. 0 \in T
  OBVIOUS
<1>2. ASSUME NEW i \in Nat, i < K, i \in T PROVE i + 1 \in T
  <2>. SUFFICES ASSUME NEW n \in Word, n < P[i + 1] PROVE Len(Buffered(b, n)) <= i + 1
    OBVIOUS
  <2>. DEFINE c == BASE16_CHARS[(n % b) + 1]
              m == n \div b
              t == IF m = 0 THEN <<>> ELSE Buffered(b, m)
  <2>1. n \in Nat /\ b \in Nat \ {0} /\ i + 1 \in 1 .. K /\ (i + 1) - 1 = i /\ i \in 0 .. K
    BY <1>2, WordTyped DEF Bases
  <2>2. m \in Nat /\ (n % b) \in Nat /\ n = m * b + (n % b) /\ (n % b) + 1 \in 1 .. 16
    BY <2>1, Divided
  <2>3. c \in DigitChars
    BY <2>2, DigitCharsTyped
  <2>4. m \in Word /\ Buffered(b, n) = <<c>> \o t
    BY BufferedIs
  <2>5. Buffered(b, m) \in Seq(DigitChars)
    BY <2>4, BufferedIs
  <2>6. P[i] \in Nat /\ m * b < b * P[i]
    <3>1. P[i] \in Nat \ {0} /\ P[i + 1] = b * P[i]
      BY <1>0, <2>1
    <3>. HIDE DEF m
    <3>2. b * P[i] \in Nat /\ m * b \in Nat
      BY <2>1, <2>2, <3>1
    <3>. QED BY <2>1, <2>2, <3>1, <3>2
  <2>. HIDE DEF m
  <2>7. m < P[i]
    <3>1. CASE b = 2
      BY <2>2, <2>6, <3>1
    <3>2. CASE b = 10
      BY <2>2, <2>6, <3>2
    <3>3. CASE b = 16
      BY <2>2, <2>6, <3>3
    <3>. QED BY <3>1, <3>2, <3>3 DEF Bases
  <2>8. t \in Seq(DigitChars) /\ Len(t) <= i
    <3>1. CASE m = 0
      BY <3>1
    <3>2. CASE m # 0
      <4>1. i > 0
        <5>1. i = 0 => m < 1
          BY <1>0, <2>7
        <5>. QED BY <2>2, <3>2, <5>1
      <4>2. Len(Buffered(b, m)) <= i
        BY <1>2, <2>4, <2>7, <4>1
      <4>. QED BY <2>5, <3>2, <4>2
    <3>. QED BY <3>1, <3>2
  <2>. HIDE DEF c, t
  <2>9. Len(<<c>> \o t) = Len(t) + 1 /\ Len(t) \in Nat
    BY <2>3, <2>8
  <2>. QED BY <2>4, <2>8, <2>9
<1>3. \A i \in 0 .. K : i \in T
  <2>. HIDE DEF T
  <2>. QED BY <1>1, <1>2, UpTo
<1>. QED BY <1>3

\* A word of eight digits has 2^32 values.
LEMMA Word32 ==
    ASSUME HexDigits = 8 PROVE WordValues = 4294967296
<1>1. \A k \in 1 .. 8 : Pow16[k] = 16 * Pow16[k - 1]
  BY Weights
<1>2. Pow16[0] = 1
  BY Weights
<1>3. Pow16[1] = 16 /\ Pow16[2] = 256 /\ Pow16[3] = 4096 /\ Pow16[4] = 65536
  BY <1>1, <1>2
<1>4. Pow16[5] = 1048576 /\ Pow16[6] = 16777216 /\ Pow16[7] = 268435456
  BY <1>1, <1>3
<1>5. Pow16[8] = 4294967296
  BY <1>1, <1>4
<1>. QED BY <1>5 DEF WordValues

(***************************************************************************)
(* The digits of a uint32_t fit the buffers they are collected in: num of  *)
(* 33 characters in output_num, output of 11 in UART_Send_Int, whose loop  *)
(* would otherwise stop and drop the leading digits.                       *)
(***************************************************************************)
THEOREM BuffersFit ==
    ASSUME HexDigits = 8, NEW n \in Word
    PROVE  /\ \A b \in Bases : Len(Buffered(b, n)) <= 33
           /\ Len(Buffered(10, n)) <= 11
<1>1. n \in Nat /\ n < 4294967296
  BY Word32 DEF Word
<1>2. Len(Buffered(2, n)) <= 32
  <2>. DEFINE b == 2
  <2>1. b \in Bases
    BY DEF Bases
  <2>2. PICK P : Powers(P, b, 32)
    <3>. HIDE DEF b
    <3>. QED BY <2>1, PowersExist
  <2>3. P[0] = 1 /\ \A i \in 1 .. 32 : P[i] = 2 * P[i - 1]
    BY <2>2 DEF Powers
  <2>4. P[1] = 2 /\ P[2] = 4 /\ P[3] = 8 /\ P[4] = 16
    BY <2>3
  <2>5. P[5] = 32 /\ P[6] = 64 /\ P[7] = 128 /\ P[8] = 256
    BY <2>3, <2>4
  <2>6. P[9] = 512 /\ P[10] = 1024 /\ P[11] = 2048 /\ P[12] = 4096
    BY <2>3, <2>5
  <2>7. P[13] = 8192 /\ P[14] = 16384 /\ P[15] = 32768 /\ P[16] = 65536
    BY <2>3, <2>6
  <2>8. P[17] = 131072 /\ P[18] = 262144 /\ P[19] = 524288 /\ P[20] = 1048576
    BY <2>3, <2>7
  <2>9. P[21] = 2097152 /\ P[22] = 4194304 /\ P[23] = 8388608 /\ P[24] = 16777216
    BY <2>3, <2>8
  <2>10. P[25] = 33554432 /\ P[26] = 67108864 /\ P[27] = 134217728 /\ P[28] = 268435456
    BY <2>3, <2>9
  <2>11. P[29] = 536870912 /\ P[30] = 1073741824 /\ P[31] = 2147483648 /\ P[32] = 4294967296
    BY <2>3, <2>10
  <2>. HIDE DEF b
  <2>12. 32 > 0 => \A m \in Word : m < P[32] => Len(Buffered(b, m)) <= 32
    BY <2>1, <2>2, DigitCount
  <2>13. Len(Buffered(b, n)) <= 32
    BY <1>1, <2>11, <2>12
  <2>. QED BY <2>13 DEF b
<1>3. Len(Buffered(10, n)) <= 10
  <2>. DEFINE b == 10
  <2>1. b \in Bases
    BY DEF Bases
  <2>2. PICK P : Powers(P, b, 10)
    <3>. HIDE DEF b
    <3>. QED BY <2>1, PowersExist
  <2>3. P[0] = 1 /\ \A i \in 1 .. 10 : P[i] = 10 * P[i - 1]
    BY <2>2 DEF Powers
  <2>4. P[1] = 10 /\ P[2] = 100 /\ P[3] = 1000 /\ P[4] = 10000 /\ P[5] = 100000
    BY <2>3
  <2>5. P[6] = 1000000 /\ P[7] = 10000000 /\ P[8] = 100000000
    BY <2>3, <2>4
  <2>6. P[9] = 1000000000 /\ P[10] = 10000000000
    BY <2>3, <2>5
  <2>. HIDE DEF b
  <2>7. 10 > 0 => \A m \in Word : m < P[10] => Len(Buffered(b, m)) <= 10
    BY <2>1, <2>2, DigitCount
  <2>8. Len(Buffered(b, n)) <= 10
    BY <1>1, <2>6, <2>7
  <2>. QED BY <2>8 DEF b
<1>4. Len(Buffered(16, n)) <= 8
  <2>. DEFINE b == 16
  <2>1. b \in Bases
    BY DEF Bases
  <2>2. PICK P : Powers(P, b, 8)
    <3>. HIDE DEF b
    <3>. QED BY <2>1, PowersExist
  <2>3. P[0] = 1 /\ \A i \in 1 .. 8 : P[i] = 16 * P[i - 1]
    BY <2>2 DEF Powers
  <2>4. P[1] = 16 /\ P[2] = 256 /\ P[3] = 4096 /\ P[4] = 65536
    BY <2>3
  <2>5. P[5] = 1048576 /\ P[6] = 16777216 /\ P[7] = 268435456 /\ P[8] = 4294967296
    BY <2>3, <2>4
  <2>. HIDE DEF b
  <2>6. 8 > 0 => \A m \in Word : m < P[8] => Len(Buffered(b, m)) <= 8
    BY <2>1, <2>2, DigitCount
  <2>7. Len(Buffered(b, n)) <= 8
    BY <1>1, <2>5, <2>6
  <2>. QED BY <2>7 DEF b
<1>5. \A b \in Bases : Len(Buffered(b, n)) \in Nat
  BY BufferedLen
<1>6. \A b \in Bases : b = 2 \/ b = 10 \/ b = 16
  BY DEF Bases
<1>7. \A b \in Bases : Len(Buffered(b, n)) <= 33
  <2>. SUFFICES ASSUME NEW b \in Bases PROVE Len(Buffered(b, n)) <= 33
    OBVIOUS
  <2>1. b = 2 => Len(Buffered(b, n)) <= 32
    BY <1>2
  <2>2. b = 10 => Len(Buffered(b, n)) <= 10
    BY <1>3
  <2>3. b = 16 => Len(Buffered(b, n)) <= 8
    BY <1>4
  <2>. QED BY <1>5, <1>6, <2>1, <2>2, <2>3
<1>8. Len(Buffered(10, n)) <= 11
  <2>1. 10 \in Bases
    BY DEF Bases
  <2>. QED BY <1>3, <1>5, <2>1
<1>. QED BY <1>7, <1>8
=============================================================================
