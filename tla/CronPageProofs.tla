---------------------------- MODULE CronPageProofs ----------------------------
(***************************************************************************)
(* Theorems about CronPage: what becomes of the lines, a removal takes out *)
(* the job it was chosen for, and types.  They rest on what the agent      *)
(* counts, and on what every copy of the table, the one on the host and    *)
(* those that tasks have read, keeps of the writes it comes from.          *)
(***************************************************************************)
EXTENDS CronPage, FiniteSetTheorems, SequenceTheorems, TLAPS

-----------------------------------------------------------------------------
(* What is counted.                                                        *)

Jobs(raw) == {i \in DOMAIN raw : IsJob(raw[i])}
Rank(raw, i) == Cardinality({k \in Jobs(raw) : k <= i})

LEMMA ParseIs ==
    ASSUME NEW raw
    PROVE  parseCrontab(raw) = {[id |-> Rank(raw, i), line |-> raw[i]] : i \in Jobs(raw)}
BY DEF parseCrontab, Rank, Jobs

(* Membership alone, without counting.                                     *)
LEMMA ParseOne ==
    ASSUME NEW line
    PROVE  parseCrontab(<<line>>) # {} <=> IsJob(line)
<1>1. DOMAIN <<line>> = {1} /\ <<line>>[1] = line
  OBVIOUS
<1>2. Jobs(<<line>>) # {} <=> IsJob(line)
  BY <1>1 DEF Jobs
<1>3. parseCrontab(<<line>>) # {} <=> Jobs(<<line>>) # {}
  BY ParseIs
<1> QED BY <1>2, <1>3

(* Line by line, the agent counts what the list counts.                    *)
LEMMA PlaceIs ==
    ASSUME NEW raw \in Seq(Line), NEW id
    PROVE  PlaceOf(raw, id) = {i \in Jobs(raw) : Rank(raw, i) = id}
<1>1. ASSUME NEW k PROVE parseCrontab(<<raw[k]>>) # {} <=> IsJob(raw[k])
  BY ParseOne
<1>2. PlaceOf(raw, id) =
        {i \in DOMAIN raw : IsJob(raw[i]) /\ Cardinality({k \in 1 .. i : IsJob(raw[k])}) = id}
  BY <1>1, Zenon DEF PlaceOf
<1>3. ASSUME NEW i \in Jobs(raw)
      PROVE  {k \in 1 .. i : IsJob(raw[k])} = {k \in Jobs(raw) : k <= i}
  <2>1. DOMAIN raw = 1 .. Len(raw) /\ Len(raw) \in Nat /\ i \in 1 .. Len(raw)
    BY DEF Jobs
  <2> QED BY <2>1 DEF Jobs
<1> QED BY <1>2, <1>3 DEF Jobs, Rank

LEMMA RankType ==
    ASSUME NEW raw \in Seq(Line), NEW i
    PROVE  IsFiniteSet({k \in Jobs(raw) : k <= i}) /\ Rank(raw, i) \in Nat
<1>1. DOMAIN raw = 1 .. Len(raw) /\ Len(raw) \in Nat
  OBVIOUS
<1>2. {k \in Jobs(raw) : k <= i} \in SUBSET (1 .. Len(raw))
  BY <1>1 DEF Jobs
<1>3. IsFiniteSet(1 .. Len(raw))
  BY <1>1, FS_Interval
<1>4. IsFiniteSet({k \in Jobs(raw) : k <= i})
  BY <1>2, <1>3, FS_Subset
<1> QED BY <1>4, FS_CardinalityType DEF Rank

(* No two jobs have one number.                                            *)
LEMMA RankUnique ==
    ASSUME NEW raw \in Seq(Line), NEW i \in Jobs(raw), NEW k \in Jobs(raw),
           Rank(raw, i) = Rank(raw, k)
    PROVE  i = k
<1>0. Jobs(raw) \subseteq Nat
  <2>1. DOMAIN raw = 1 .. Len(raw) /\ Len(raw) \in Nat
    OBVIOUS
  <2> QED BY <2>1 DEF Jobs
<1>1. ASSUME NEW a \in Jobs(raw), NEW b \in Jobs(raw), a < b
      PROVE  Rank(raw, a) # Rank(raw, b)
  <2>1. {c \in Jobs(raw) : c <= a} \in SUBSET {c \in Jobs(raw) : c <= b}
    BY <1>0, <1>1
  <2>2. b \in {c \in Jobs(raw) : c <= b} /\ b \notin {c \in Jobs(raw) : c <= a}
    BY <1>0, <1>1
  <2>3. IsFiniteSet({c \in Jobs(raw) : c <= b})
    BY RankType
  <2>4. {c \in Jobs(raw) : c <= a} # {c \in Jobs(raw) : c <= b}
    BY <2>2
  <2> QED BY <2>1, <2>3, <2>4, FS_Subset DEF Rank
<1> QED BY <1>0, <1>1

(* The job of a number is at its place.                                    *)
LEMMA PlaceUnique ==
    ASSUME NEW raw \in Seq(Line), NEW id, NEW line,
           [id |-> id, line |-> line] \in parseCrontab(raw), NEW i \in PlaceOf(raw, id)
    PROVE  i \in DOMAIN raw /\ IsJob(raw[i]) /\ raw[i] = line
<1>1. PICK k \in Jobs(raw) : [id |-> id, line |-> line] = [id |-> Rank(raw, k), line |-> raw[k]]
  BY ParseIs
<1>2. id = Rank(raw, k) /\ line = raw[k]
  BY <1>1
<1>3. i \in Jobs(raw) /\ Rank(raw, i) = id
  BY PlaceIs
<1>4. i = k
  BY <1>2, <1>3, RankUnique
<1> QED BY <1>2, <1>3, <1>4 DEF Jobs

LEMMA ParseType ==
    ASSUME NEW raw \in Seq(Line)
    PROVE  parseCrontab(raw) \subseteq CronJob
<1>1. ASSUME NEW i \in Jobs(raw) PROVE [id |-> Rank(raw, i), line |-> raw[i]] \in CronJob
  BY RankType DEF Jobs, IsJob, CronJob
<1> QED BY <1>1, ParseIs

-----------------------------------------------------------------------------
(* Sequences.                                                              *)

(* RemoveAt takes out one place.                                           *)
LEMMA RemoveIs ==
    ASSUME NEW S, NEW s \in Seq(S), NEW i \in DOMAIN s
    PROVE  /\ RemoveAt(s, i) \in Seq(S) /\ Len(RemoveAt(s, i)) = Len(s) - 1
           /\ \A k \in 1 .. Len(s) - 1 : RemoveAt(s, i)[k] = IF k < i THEN s[k] ELSE s[k + 1]
<1>1. Len(s) \in Nat /\ i \in 1 .. Len(s)
  OBVIOUS
<1>2. PICK a, b : a = SubSeq(s, 1, i - 1) /\ b = SubSeq(s, i + 1, Len(s))
  OBVIOUS
<1>3. /\ a \in Seq(S) /\ Len(a) = i - 1 /\ \A k \in 1 .. i - 1 : a[k] = s[k]
      /\ b \in Seq(S) /\ Len(b) = Len(s) - i /\ \A k \in 1 .. Len(s) - i : b[k] = s[i + k]
  <2>1. a \in Seq(S) /\ Len(a) = i - 1 /\ \A k \in 1 .. i - 1 : a[k] = s[k]
    BY <1>1, <1>2
  <2>2. b \in Seq(S) /\ Len(b) = Len(s) - i
    BY <1>1, <1>2
  <2>3. \A k \in 1 .. Len(s) - i : b[k] = s[i + k]
    BY <1>1, <1>2
  <2> QED BY <2>1, <2>2, <2>3
<1>4. RemoveAt(s, i) = a \o b
  BY <1>2 DEF RemoveAt
<1>5. a \o b \in Seq(S) /\ Len(a \o b) = Len(s) - 1
  BY <1>1, <1>3
<1>6. ASSUME NEW k \in 1 .. Len(s) - 1
      PROVE  (a \o b)[k] = IF k < i THEN s[k] ELSE s[k + 1]
  <2>1. CASE k < i
    <3>1. k \in 1 .. Len(a)
      BY <1>1, <1>3, <2>1
    <3>2. (a \o b)[k] = a[k]
      BY <1>1, <1>3, <3>1
    <3> QED BY <1>1, <1>3, <2>1, <3>1, <3>2
  <2>2. CASE ~(k < i)
    <3>0. PICK n, p, q : n = Len(s) /\ p = Len(a) /\ q = Len(b)
      OBVIOUS
    <3>1. PICK m \in 1 .. Len(b) : k = Len(a) + m /\ i + m = k + 1
      <4>1. n \in Nat /\ i \in 1 .. n /\ k \in 1 .. n - 1 /\ p = i - 1 /\ q = n - i /\ ~(k < i)
        BY <1>1, <1>3, <2>2, <3>0
      <4>2. k - p \in 1 .. q /\ k = p + (k - p) /\ i + (k - p) = k + 1
        BY <4>1
      <4> QED BY <3>0, <4>2
    <3>2. (a \o b)[k] = b[m]
      <4>1. p \in Nat /\ q \in Nat /\ m \in 1 .. q /\ k = p + m
        BY <1>1, <1>3, <3>0, <3>1
      <4>2. k \in 1 .. p + q /\ k > p /\ k - p = m
        BY <4>1
      <4>3. (a \o b)[k] = IF k <= p THEN a[k] ELSE b[k - p]
        BY <1>3, <3>0, <4>2, ConcatProperties
      <4> QED BY <4>1, <4>2, <4>3
    <3>3. i + m = k + 1 /\ m \in 1 .. Len(s) - i
      BY <1>3, <3>1
    <3> QED BY <1>1, <1>3, <2>2, <3>1, <3>2, <3>3
  <2> QED BY <2>1, <2>2
<1> QED BY <1>4, <1>5, <1>6

-----------------------------------------------------------------------------
(* Copies of the table: what every one of them keeps.                      *)

Distinct(s) == \A i, k \in DOMAIN s : s[i] = s[k] => i = k
Within(line, s) == \E i \in DOMAIN s : s[i] = line
Keeps(s) ==
    \A i, k \in DOMAIN s :
       i < k /\ ~IsJob(s[i]) /\ ~IsJob(s[k]) =>
          \E m, n \in DOMAIN First : m < n /\ First[m] = s[i] /\ First[n] = s[k]
(* A line is of the first table or was added; it is added once.            *)
Good(s, st, ch) ==
    /\ s \in Seq(Line) /\ Distinct(s) /\ Keeps(s)
    /\ \A i \in DOMAIN s : Within(s[i], First) \/ \E t \in DOMAIN ch : ch[t].meant = s[i]
    /\ \A t \in DOMAIN ch : ch[t].kind = "add" /\ st[t] \notin Terminal => ~Within(ch[t].meant, s)

LEMMA GoodEmpty ==
    ASSUME NEW st, NEW ch
    PROVE  Good(<< >>, st, ch)
<1>1. << >> \in Seq(Line) /\ DOMAIN << >> = {}
  BY EmptySeq
<1> QED BY <1>1, Zenon DEF Good, Distinct, Keeps, Within

LEMMA GoodFirst ==
    ASSUME NEW st, NEW ch, DOMAIN ch = {}
    PROVE  Good(First, st, ch)
BY LinesAssumption DEF Good, Distinct, Keeps, Within, Line

(* Taking out a job.                                                       *)
LEMMA GoodRemoved ==
    ASSUME NEW s, NEW st, NEW ch, Good(s, st, ch), NEW i \in DOMAIN s, IsJob(s[i])
    PROVE  /\ Good(RemoveAt(s, i), st, ch)
           /\ Len(RemoveAt(s, i)) = Len(s) - 1
           /\ ToSet(RemoveAt(s, i)) = ToSet(s) \ {s[i]}
<1>1. PICK r, n :
         /\ n \in Nat /\ r = RemoveAt(s, i) /\ n = Len(s) /\ r \in Seq(Line) /\ Len(r) = n - 1
         /\ DOMAIN s = 1 .. n /\ DOMAIN r = 1 .. n - 1 /\ i \in 1 .. n
         /\ \A k \in 1 .. n - 1 : r[k] = IF k < i THEN s[k] ELSE s[k + 1]
  <2>1. s \in Seq(Line)
    BY DEF Good
  <2>2. PICK r, n : r = RemoveAt(s, i) /\ n = Len(s)
    OBVIOUS
  <2>3. /\ r \in Seq(Line) /\ Len(r) = n - 1
        /\ \A k \in 1 .. n - 1 : r[k] = IF k < i THEN s[k] ELSE s[k + 1]
    BY <2>1, <2>2, RemoveIs
  <2>4. n \in Nat /\ DOMAIN s = 1 .. n /\ DOMAIN r = 1 .. n - 1
    BY <2>1, <2>2, <2>3
  <2> QED BY <2>2, <2>3, <2>4
(* Where the places of the shorter one are in the longer one.              *)
<1>2. PICK f : f = [k \in 1 .. n - 1 |-> IF k < i THEN k ELSE k + 1]
  OBVIOUS
<1>3. /\ \A k \in 1 .. n - 1 : f[k] \in 1 .. n /\ f[k] # i /\ r[k] = s[f[k]]
      /\ \A j, k \in 1 .. n - 1 : (j < k => f[j] < f[k]) /\ (f[j] = f[k] => j = k)
  BY <1>1, <1>2
<1>4. ASSUME NEW j \in 1 .. n, j # i PROVE \E k \in 1 .. n - 1 : f[k] = j
  <2>1. CASE j < i
    BY <1>1, <1>2, <1>4, <2>1
  <2>2. CASE j > i
    <3>1. j - 1 \in 1 .. n - 1 /\ ~(j - 1 < i) /\ (j - 1) + 1 = j
      BY <1>1, <1>4, <2>2
    <3> QED BY <1>2, <3>1
  <2> QED BY <1>1, <1>4, <2>1, <2>2
<1>5. ToSet(r) = ToSet(s) \ {s[i]}
  <2>1. \A j \in 1 .. n : s[j] = s[i] => j = i
    BY <1>1 DEF Good, Distinct
  <2>2. ASSUME NEW x \in ToSet(r) PROVE x \in ToSet(s) /\ x # s[i]
    BY <1>1, <1>3, <2>1, <2>2 DEF ToSet
  <2>3. ASSUME NEW x \in ToSet(s), x # s[i] PROVE x \in ToSet(r)
    <3>1. PICK j \in 1 .. n : x = s[j]
      BY <1>1 DEF ToSet
    <3>2. PICK k \in 1 .. n - 1 : f[k] = j
      BY <1>4, <2>3, <3>1
    <3>3. k \in DOMAIN r /\ r[k] = x
      BY <1>1, <1>3, <3>1, <3>2
    <3> QED BY <3>3 DEF ToSet
  <2> QED BY <2>2, <2>3
<1>6. Distinct(r)
  <2>1. ASSUME NEW j \in 1 .. n - 1, NEW k \in 1 .. n - 1, r[j] = r[k] PROVE j = k
    <3>1. f[j] \in 1 .. n /\ f[k] \in 1 .. n /\ s[f[j]] = s[f[k]]
      BY <1>3, <2>1
    <3>2. f[j] = f[k]
      BY <1>1, <3>1 DEF Good, Distinct
    <3> QED BY <1>3, <3>2
  <2> QED BY <1>1, <2>1 DEF Distinct
<1>7. \A x : Within(x, r) => Within(x, s)
  BY <1>1, <1>3 DEF Within
<1>8. Keeps(r)
  <2>1. ASSUME NEW j \in 1 .. n - 1, NEW k \in 1 .. n - 1, j < k, ~IsJob(r[j]), ~IsJob(r[k])
        PROVE  \E m, q \in DOMAIN First : m < q /\ First[m] = r[j] /\ First[q] = r[k]
    <3>1. f[j] < f[k] /\ r[j] = s[f[j]] /\ r[k] = s[f[k]] /\ f[j] \in DOMAIN s /\ f[k] \in DOMAIN s
      BY <1>1, <1>3, <2>1
    <3> QED BY <2>1, <3>1 DEF Good, Keeps
  <2> QED BY <1>1, <2>1 DEF Keeps
<1>9. \A k \in DOMAIN r : Within(r[k], First) \/ \E t \in DOMAIN ch : ch[t].meant = r[k]
  <2>1. ASSUME NEW k \in DOMAIN r PROVE \E j \in DOMAIN s : r[k] = s[j]
    BY <1>1, <1>3
  <2> QED BY <2>1 DEF Good
<1>10. Good(r, st, ch)
  BY <1>1, <1>6, <1>7, <1>8, <1>9 DEF Good
<1> QED BY <1>1, <1>5, <1>10

(* Adding a line that is not there.                                        *)
LEMMA GoodAppended ==
    ASSUME NEW s, NEW st, NEW su, NEW ch, NEW u \in DOMAIN ch, Good(s, st, ch),
           ch[u].kind = "add", ch[u].meant \in Job, st[u] \notin Terminal, su[u] \in Terminal,
           \A t \in DOMAIN ch : t # u => su[t] = st[t],
           \A t \in DOMAIN ch : ch[t].kind = "add" /\ t # u => ch[t].meant # ch[u].meant
    PROVE  Good(Append(s, ch[u].meant), su, ch)
<1>1. PICK r, n, x :
         /\ n \in Nat /\ x \in Job /\ x = ch[u].meant /\ r = Append(s, x) /\ n = Len(s) /\ r \in Seq(Line)
         /\ DOMAIN s = 1 .. n /\ DOMAIN r = 1 .. n + 1
         /\ r[n + 1] = x /\ \A k \in 1 .. n : r[k] = s[k]
  <2>1. s \in Seq(Line) /\ ch[u].meant \in Line
    BY DEF Good, Line
  <2>2. PICK r, n, x : x = ch[u].meant /\ r = Append(s, x) /\ n = Len(s)
    OBVIOUS
  <2>3. /\ n \in Nat /\ r \in Seq(Line) /\ Len(r) = n + 1
        /\ r[n + 1] = x /\ \A k \in 1 .. n : r[k] = s[k]
    BY <2>1, <2>2
  <2>4. DOMAIN s = 1 .. n
    BY <2>1, <2>2
  <2>5. DOMAIN r = 1 .. n + 1
    BY <2>3
  <2>6. x \in Job /\ x = ch[u].meant /\ r = Append(s, x) /\ n = Len(s)
    BY <2>2
  <2> QED BY <2>3, <2>4, <2>5, <2>6
<1>2. ~Within(x, s) /\ \A k \in 1 .. n + 1 : k \in 1 .. n \/ k = n + 1
  BY <1>1 DEF Good
<1>3. Distinct(r)
  BY <1>1, <1>2 DEF Good, Distinct, Within
<1>4. \A y : Within(y, r) <=> Within(y, s) \/ y = x
  BY <1>1, <1>2 DEF Within
<1>5. Keeps(r)
  <2>1. x \notin Comment /\ IsJob(x)
    BY <1>1, LinesAssumption DEF IsJob
  <2>2. ASSUME NEW j \in 1 .. n + 1, NEW k \in 1 .. n + 1, j < k, ~IsJob(r[j]), ~IsJob(r[k])
        PROVE  \E m, q \in DOMAIN First : m < q /\ First[m] = r[j] /\ First[q] = r[k]
    <3>1. j \in 1 .. n /\ k \in 1 .. n
      BY <1>1, <1>2, <2>1, <2>2
    <3> QED BY <1>1, <2>2, <3>1 DEF Good, Keeps
  <2> QED BY <1>1, <2>2 DEF Keeps
<1>6. \A k \in DOMAIN r : Within(r[k], First) \/ \E t \in DOMAIN ch : ch[t].meant = r[k]
  BY <1>1, <1>2 DEF Good
<1>7. \A t \in DOMAIN ch : ch[t].kind = "add" /\ su[t] \notin Terminal => ~Within(ch[t].meant, r)
  BY <1>1, <1>4 DEF Good
<1> QED BY <1>1, <1>3, <1>5, <1>6, <1>7 DEF Good

(* A copy is none the worse for what becomes of the changes.               *)
LEMMA GoodKept ==
    ASSUME NEW s, NEW st, NEW su, NEW ch, NEW cu, Good(s, st, ch),
           \A t \in DOMAIN ch : /\ t \in DOMAIN cu /\ cu[t].kind = ch[t].kind
                                /\ cu[t].meant = ch[t].meant
                                /\ st[t] \in Terminal => su[t] \in Terminal,
           \A t \in DOMAIN cu \ DOMAIN ch : cu[t].kind = "add" =>
              /\ ~Within(cu[t].meant, First)
              /\ \A v \in DOMAIN ch : ch[v].meant # cu[t].meant
    PROVE  Good(s, su, cu)
<1>1. ASSUME NEW t \in DOMAIN cu, cu[t].kind = "add", su[t] \notin Terminal
      PROVE  ~Within(cu[t].meant, s)
  <2>1. CASE t \in DOMAIN ch
    BY <1>1, <2>1 DEF Good
  <2>2. CASE t \notin DOMAIN ch
    BY <1>1, <2>2 DEF Good, Within
  <2> QED BY <2>1, <2>2
<1> QED BY <1>1 DEF Good

-----------------------------------------------------------------------------
(* Copies and the writes they come from.                                   *)

Write == [base : Nat, put : SUBSET Line, out : SUBSET Job]
Outs(ws) == UNION {ws[n].out : n \in DOMAIN ws}
(* An edition is overtaken before edition b.                               *)
Passed(ws, e, b) == \E n \in DOMAIN ws : n > e /\ n <= b /\ ws[n].base < e
(* What a copy that was read of edition b has of the writes.               *)
Holds(ws, s, b) ==
    \A e \in DOMAIN ws : e <= b /\ ~Passed(ws, e, b) =>
       ws[e].put \ Outs(ws) \subseteq ToSet(s) /\ ws[e].out \cap ToSet(s) = {}

LEMMA AppendIs ==
    ASSUME NEW ws \in Seq(Write), NEW w \in Write
    PROVE  /\ Append(ws, w) \in Seq(Write) /\ Len(Append(ws, w)) = Len(ws) + 1 /\ Len(ws) \in Nat
           /\ DOMAIN ws = 1 .. Len(ws) /\ DOMAIN Append(ws, w) = 1 .. Len(ws) + 1
           /\ Append(ws, w)[Len(ws) + 1] = w
           /\ \A n \in 1 .. Len(ws) : Append(ws, w)[n] = ws[n]
           /\ Outs(Append(ws, w)) = Outs(ws) \cup w.out
<1>0. PICK vs, n : vs = Append(ws, w) /\ n = Len(ws)
  OBVIOUS
<1>1. /\ n \in Nat /\ DOMAIN ws = 1 .. n /\ vs \in Seq(Write) /\ Len(vs) = n + 1
      /\ vs[n + 1] = w /\ \A i \in 1 .. n : vs[i] = ws[i]
  BY <1>0
<1>2. DOMAIN vs = 1 .. n + 1
  BY <1>1
<1>3. \A i : i \in 1 .. n + 1 <=> i \in 1 .. n \/ i = n + 1
  BY <1>1
<1>4. Outs(vs) \subseteq Outs(ws) \cup w.out
  <2>1. ASSUME NEW i \in 1 .. n + 1 PROVE vs[i].out \subseteq Outs(ws) \cup w.out
    BY <1>1, <1>3 DEF Outs
  <2> QED BY <1>2, <2>1 DEF Outs
<1>5. Outs(ws) \cup w.out \subseteq Outs(vs)
  <2>1. w.out \subseteq Outs(vs)
    BY <1>1, <1>2, <1>3 DEF Outs
  <2>2. ASSUME NEW i \in 1 .. n PROVE ws[i].out \subseteq Outs(vs)
    BY <1>1, <1>2, <1>3 DEF Outs
  <2>3. Outs(ws) \subseteq Outs(vs)
    BY <1>1, <2>2 DEF Outs
  <2> QED BY <2>1, <2>3
<1> QED BY <1>0, <1>1, <1>2, <1>4, <1>5

(* A later write changes nothing for a copy.                               *)
LEMMA HoldsLater ==
    ASSUME NEW ws \in Seq(Write), NEW w \in Write, NEW s, NEW b \in Nat, b <= Len(ws),
           Holds(ws, s, b)
    PROVE  Holds(Append(ws, w), s, b)
<1>0. PICK vs, n : vs = Append(ws, w) /\ n = Len(ws)
  OBVIOUS
<1>1. /\ vs = Append(ws, w) /\ n \in Nat /\ DOMAIN ws = 1 .. n /\ DOMAIN vs = 1 .. n + 1
      /\ b <= n /\ \A i \in 1 .. n : vs[i] = ws[i]
      /\ Outs(ws) \subseteq Outs(vs)
  BY <1>0, AppendIs
<1>2. ASSUME NEW e \in DOMAIN vs, e <= b, ~Passed(vs, e, b)
      PROVE  vs[e].put \ Outs(vs) \subseteq ToSet(s) /\ vs[e].out \cap ToSet(s) = {}
  <2>1. e \in DOMAIN ws /\ vs[e] = ws[e]
    BY <1>1, <1>2
  <2>2. ~Passed(ws, e, b)
    BY <1>1, <1>2 DEF Passed
  <2> QED BY <1>1, <1>2, <2>1, <2>2 DEF Holds
<1> QED BY <1>1, <1>2 DEF Holds

(* What is made of a copy and written takes over what the copy had.        *)
LEMMA HoldsNow ==
    ASSUME NEW ws \in Seq(Write), NEW w \in Write, w.base <= Len(ws), NEW s, NEW r,
           Holds(ws, s, w.base), w.put \subseteq ToSet(r), w.out \cap ToSet(r) = {},
           ToSet(r) \subseteq ToSet(s) \cup w.put, ToSet(s) \ w.out \subseteq ToSet(r),
           w.put \cap Outs(ws) = {}
    PROVE  Holds(Append(ws, w), r, Len(ws) + 1)
<1>0. PICK vs, n : vs = Append(ws, w) /\ n = Len(ws)
  OBVIOUS
<1>1. /\ vs = Append(ws, w) /\ n = Len(ws) /\ n \in Nat /\ w.base <= n
      /\ DOMAIN ws = 1 .. n /\ DOMAIN vs = 1 .. n + 1
      /\ vs[n + 1] = w /\ \A i \in 1 .. n : vs[i] = ws[i]
      /\ Outs(vs) = Outs(ws) \cup w.out
  BY <1>0, AppendIs
<1>2. w.base \in Nat
  BY DEF Write
<1>3. ASSUME NEW e \in 1 .. n, ~Passed(vs, e, n + 1)
      PROVE  vs[e].put \ Outs(vs) \subseteq ToSet(r) /\ vs[e].out \cap ToSet(r) = {}
  <2>1. e <= w.base
    BY <1>1, <1>2, <1>3 DEF Passed
  <2>2. ~Passed(ws, e, w.base)
    BY <1>1, <1>2, <1>3 DEF Passed
  <2>3. ws[e].put \ Outs(ws) \subseteq ToSet(s) /\ ws[e].out \cap ToSet(s) = {}
    BY <1>1, <2>1, <2>2 DEF Holds
  <2>4. ws[e].out \subseteq Outs(ws)
    BY <1>1 DEF Outs
  <2> QED BY <1>1, <2>3, <2>4
<1>4. \A e \in 1 .. n + 1 : e \in 1 .. n \/ e = n + 1
  BY <1>1
<1> QED BY <1>1, <1>3, <1>4 DEF Holds

-----------------------------------------------------------------------------
(* What a step does to the changes, the table, the questions and the page. *)

USE DEF ledger, cron, cronTab, bounds, vars

Framed ==
    /\ loads \in [Load -> [asked : BOOLEAN, got : SUBSET CronJob, edition : Nat]]
    /\ crons \in [jobs : SUBSET CronJob, edition : Nat]
    /\ edition \in Nat /\ reloads \in Nat
    /\ status \in Seq(Status) /\ change \in Seq(Change) /\ Len(change) = Len(status)
    /\ table \in Seq(Line)

Stays(t) ==
    /\ t \in DOMAIN change'
    /\ change'[t].kind = change[t].kind /\ change'[t].id = change[t].id
    /\ change'[t].meant = change[t].meant /\ change'[t].saw = change[t].saw
    /\ \/ /\ change'[t].read = change[t].read /\ change'[t].raw = change[t].raw
          /\ change'[t].of = change[t].of
       \/ change'[t].raw = table /\ change'[t].of = edition /\ UNCHANGED cron
       \/ change'[t].raw = << >> /\ change'[t].of = 0 /\ UNCHANGED cron
    /\ status[t] \in Terminal => status'[t] \in Terminal
New(t) ==
    LET c == change'[t] IN
    /\ UNCHANGED <<cron, crons>> /\ c.meant \in Job /\ ~c.read /\ c.of = 0
    /\ c.kind = "add" => /\ c.saw = 0 /\ ~Within(c.meant, First)
                         /\ \A v \in DOMAIN change : change[v].meant # c.meant
    /\ c.kind # "add" => /\ [id |-> c.id, line |-> c.meant] \in crons.jobs
                         /\ c.saw = crons.edition
ChangesFx ==
    /\ \A t \in DOMAIN change : Stays(t)
    /\ \A t \in DOMAIN change' \ DOMAIN change : New(t)
    /\ \A t, u \in DOMAIN change' \ DOMAIN change : t = u
Ledgered == status' \in Seq(Status) /\ change' \in Seq(Change) /\ Len(change') = Len(status')

LEMMA CreateFx ==
    ASSUME Framed, NEW c \in Change, Create(c)
    PROVE  /\ Ledgered /\ Len(status') = Len(status) + 1
           /\ \A t \in DOMAIN change : /\ t \in DOMAIN change' /\ change'[t] = change[t]
                                       /\ status'[t] = status[t]
           /\ DOMAIN change' = DOMAIN change \cup {Len(status')}
           /\ change'[Len(status')] = c /\ status'[Len(status')] = "queued"
<1>1. "queued" \in Status
  BY DEF Status
<1>2. status \in Seq(Status) /\ change \in Seq(Change) /\ Len(change) = Len(status)
  BY DEF Framed
<1>3. status' = Append(status, "queued") /\ change' = Append(change, c)
  BY DEF Create
<1>4. PICK n \in Nat : n = Len(status)
  BY <1>2
<1>5. /\ status' \in Seq(Status) /\ Len(status') = n + 1 /\ status'[n + 1] = "queued"
      /\ \A t \in 1 .. n : status'[t] = status[t]
  BY <1>1, <1>2, <1>3, <1>4
<1>6. /\ change' \in Seq(Change) /\ Len(change') = n + 1 /\ change'[n + 1] = c
      /\ \A t \in 1 .. n : change'[t] = change[t]
  BY <1>2, <1>3, <1>4
<1>7. DOMAIN change = 1 .. n /\ DOMAIN change' = 1 .. n + 1
  BY <1>2, <1>4, <1>6
<1> QED BY <1>4, <1>5, <1>6, <1>7 DEF Ledgered

LEMMA AddFx ==
    ASSUME Framed, NEW j \in Job, addCron(j)
    PROVE  Ledgered /\ ChangesFx
<1>1. PICK c : c = [NoChange EXCEPT !.kind = "add", !.meant = j, !.sent = TRUE]
  OBVIOUS
<1>2. /\ c \in Change /\ c.meant = j /\ ~c.read /\ c.of = 0 /\ c.kind = "add" /\ c.saw = 0
  <2>1. PICK e \in Seq(Line) : e = << >>
    BY EmptySeq
  <2>2. c = [kind |-> "add", id |-> 0, meant |-> j, saw |-> 0, sent |-> TRUE, read |-> FALSE,
             raw |-> e, of |-> 0]
    BY <1>1, <2>1 DEF NoChange
  <2> QED BY <2>2 DEF Change
<1>3. /\ Create(c) /\ UNCHANGED <<cron, crons>>
      /\ j \notin ToSet(First) /\ \A t \in DOMAIN change : change[t].meant # j
  BY <1>1 DEF addCron
<1>4. ~Within(j, First)
  BY <1>3 DEF Within, ToSet
<1>5. \A t \in DOMAIN change : Stays(t)
  BY <1>2, <1>3, CreateFx DEF Stays
<1>6. \A t \in DOMAIN change' \ DOMAIN change : New(t)
  BY <1>2, <1>3, <1>4, CreateFx DEF New
<1> QED BY <1>2, <1>3, <1>5, <1>6, CreateFx DEF ChangesFx

LEMMA RemoveFx ==
    ASSUME Framed, NEW job \in crons.jobs, removeCron(job)
    PROVE  Ledgered /\ ChangesFx
<1>1. PICK c : c = [NoChange EXCEPT !.kind = "remove", !.id = job.id, !.meant = job.line,
                                    !.saw = crons.edition, !.sent = TRUE]
  OBVIOUS
<1>2. job \in CronJob /\ crons.edition \in Nat
  BY DEF Framed
<1>3. /\ c \in Change /\ c.meant = job.line /\ c.id = job.id /\ ~c.read /\ c.kind = "remove"
      /\ c.of = 0 /\ c.saw = crons.edition /\ job.line \in Job /\ job = [id |-> job.id, line |-> job.line]
  <2>1. PICK e \in Seq(Line) : e = << >>
    BY EmptySeq
  <2>2. PICK i \in Nat, l \in Job, n \in Nat :
          i = job.id /\ l = job.line /\ n = crons.edition /\ job = [id |-> i, line |-> l]
    BY <1>2 DEF CronJob
  <2>3. c = [kind |-> "remove", id |-> i, meant |-> l, saw |-> n, sent |-> TRUE, read |-> FALSE,
             raw |-> e, of |-> 0]
    BY <1>1, <2>1, <2>2 DEF NoChange
  <2> QED BY <2>2, <2>3 DEF Change
<1>4. Create(c) /\ UNCHANGED <<cron, crons>>
  BY <1>1 DEF removeCron
<1>5. \A t \in DOMAIN change : Stays(t)
  BY <1>3, <1>4, CreateFx DEF Stays
<1>6. \A t \in DOMAIN change' \ DOMAIN change : New(t)
  BY <1>3, <1>4, CreateFx DEF New
<1> QED BY <1>3, <1>4, <1>5, <1>6, CreateFx DEF ChangesFx

(* The status of one change is set.                                        *)
LEMMA SetFx ==
    ASSUME Framed, NEW t \in DOMAIN status, NEW s \in Status, Set(t, s), change' = change,
           status[t] \notin Terminal
    PROVE  /\ Ledgered /\ ChangesFx
           /\ DOMAIN status' = DOMAIN status
           /\ status'[t] = s /\ \A u \in DOMAIN status : u # t => status'[u] = status[u]
<1>1. status \in Seq(Status) /\ DOMAIN status = 1 .. Len(status) /\ Len(status) \in Nat
  BY DEF Framed
<1>2. status' = [status EXCEPT ![t] = s]
  BY DEF Set
<1>3. /\ status' \in Seq(Status) /\ Len(status') = Len(status)
      /\ status'[t] = s /\ \A u \in DOMAIN status : u # t => status'[u] = status[u]
  BY <1>1, <1>2
<1>4. DOMAIN status' = DOMAIN status
  BY <1>2
<1>5. DOMAIN change = DOMAIN status /\ DOMAIN change' = DOMAIN change /\ Ledgered
  BY <1>3 DEF Framed, Ledgered
<1>6. ASSUME NEW u \in DOMAIN change PROVE Stays(u)
  <2>1. status[u] \in Terminal => status'[u] \in Terminal
    BY <1>3, <1>5
  <2> QED BY <1>5, <2>1 DEF Stays
<1> QED BY <1>3, <1>4, <1>5, <1>6 DEF ChangesFx

(* One change is written down anew.                                        *)
LEMMA NotedFx ==
    ASSUME Framed, NEW t \in DOMAIN status, NEW c \in Change, status' = status,
           change' = [change EXCEPT ![t] = c],
           c.kind = change[t].kind, c.id = change[t].id, c.meant = change[t].meant,
           c.saw = change[t].saw,
           \/ c.read = change[t].read /\ c.raw = change[t].raw /\ c.of = change[t].of
           \/ c.raw = table /\ c.of = edition /\ UNCHANGED cron
           \/ c.raw = << >> /\ c.of = 0 /\ UNCHANGED cron
    PROVE  /\ Ledgered /\ ChangesFx /\ DOMAIN change' = DOMAIN change
           /\ change'[t] = c /\ \A u \in DOMAIN change : u # t => change'[u] = change[u]
<1>1. /\ change \in Seq(Change) /\ DOMAIN change = DOMAIN status
      /\ DOMAIN change = 1 .. Len(change) /\ Len(change) \in Nat
  BY DEF Framed
<1>2. /\ change' \in Seq(Change) /\ Len(change') = Len(change)
      /\ change'[t] = c /\ \A u \in DOMAIN change : u # t => change'[u] = change[u]
  BY <1>1
<1>3. DOMAIN change' = DOMAIN change
  OBVIOUS
<1> QED BY <1>1, <1>2, <1>3 DEF Framed, Ledgered, ChangesFx, Stays

LEMMA ReadFx ==
    ASSUME Framed, NEW t \in DOMAIN status, ReadCrontab(t) \/ ReadNothing(t)
    PROVE  /\ Ledgered /\ ChangesFx /\ DOMAIN change' = DOMAIN change /\ UNCHANGED status
           /\ \A u \in DOMAIN change : change'[u].sent = change[u].sent
<1>1. /\ t \in DOMAIN change /\ change[t] \in Change /\ UNCHANGED <<status, cron>>
      /\ table \in Seq(Line) /\ << >> \in Seq(Line) /\ edition \in Nat
  BY EmptySeq DEF Framed, ReadCrontab, ReadNothing
<1>2. PICK raw \in Seq(Line), of \in Nat :
        /\ change' = [change EXCEPT ![t].read = TRUE, ![t].raw = raw, ![t].of = of]
        /\ \/ raw = table /\ of = edition
           \/ raw = << >> /\ of = 0
  BY <1>1 DEF ReadCrontab, ReadNothing
<1>3. PICK c : c = [change[t] EXCEPT !.read = TRUE, !.raw = raw, !.of = of]
  OBVIOUS
<1>4. /\ c \in Change /\ c.kind = change[t].kind /\ c.id = change[t].id
      /\ c.meant = change[t].meant /\ c.saw = change[t].saw /\ c.raw = raw /\ c.of = of
      /\ c.sent = change[t].sent
  BY <1>1, <1>3 DEF Change
<1>5. change' = [change EXCEPT ![t] = c]
  BY <1>1, <1>2, <1>3 DEF Framed
<1>6. /\ Ledgered /\ ChangesFx /\ DOMAIN change' = DOMAIN change
      /\ change'[t] = c /\ \A u \in DOMAIN change : u # t => change'[u] = change[u]
  BY <1>1, <1>2, <1>4, <1>5, NotedFx
<1> QED BY <1>1, <1>4, <1>6

LEMMA PostFx ==
    ASSUME Framed, NEW t \in DOMAIN status, PostAnswered(t) \/ PostFails(t)
    PROVE  /\ Ledgered /\ ChangesFx /\ DOMAIN change' = DOMAIN change
           /\ change[t].sent /\ ~change'[t].sent
           /\ \A u \in DOMAIN change : u # t => change'[u].sent = change[u].sent
<1>1. PICK c : c = [change[t] EXCEPT !.sent = FALSE]
  OBVIOUS
<1>2. t \in DOMAIN change /\ change[t] \in Change
  BY DEF Framed
<1>3. /\ c \in Change /\ c.kind = change[t].kind /\ c.id = change[t].id
      /\ c.meant = change[t].meant /\ c.saw = change[t].saw /\ c.raw = change[t].raw
      /\ c.of = change[t].of /\ c.read = change[t].read /\ ~c.sent
  BY <1>1, <1>2 DEF Change
<1>4. change' = [change EXCEPT ![t] = c] /\ status' = status /\ change[t].sent
  BY <1>1, <1>2 DEF PostAnswered, PostFails, Framed
<1>5. /\ Ledgered /\ ChangesFx /\ DOMAIN change' = DOMAIN change
      /\ change'[t] = c /\ \A u \in DOMAIN change : u # t => change'[u] = change[u]
  BY <1>3, <1>4, NotedFx
<1> QED BY <1>3, <1>4, <1>5

LEMMA StillFx ==
    ASSUME Framed, UNCHANGED ledger
    PROVE  Ledgered /\ ChangesFx
BY DEF Framed, Ledgered, ChangesFx, Stays

(* The table is replaced by one task, or stays.                            *)
Removes(t) == WriteRemoved(t) /\ PlaceOf(change[t].raw, change[t].id) # {}
LEMMA LedgerFx ==
    ASSUME Framed, [Next]_vars
    PROVE  /\ Ledgered /\ ChangesFx
           /\ \/ UNCHANGED cron
              \/ \E t \in DOMAIN status : WriteAdded(t) \/ Removes(t)
<1>1. /\ {"running", "succeeded", "failed"} \subseteq Status
      /\ "queued" \notin Terminal /\ "running" \notin Terminal
  BY DEF Status, Terminal
<1>2. ASSUME NEW t \in DOMAIN status,
             Start(t) \/ WriteAdded(t) \/ WriteRemoved(t) \/ CrontabFails(t)
      PROVE  Ledgered /\ ChangesFx
  BY <1>1, <1>2, SetFx DEF Start, WriteAdded, WriteRemoved, CrontabFails, Told
<1>3. ASSUME NEW t \in DOMAIN status, WriteRemoved(t) PROVE UNCHANGED cron \/ Removes(t)
  BY <1>3 DEF WriteRemoved, Removes
<1>4. ASSUME NEW s \in Load,
             Refresh(s) \/ Reload(s) \/ CronArrives(s) \/ CronMisread(s) \/ CronFails(s)
      PROVE  UNCHANGED <<ledger, cron>>
  BY <1>4 DEF Refresh, Reload, CronArrives, CronMisread, CronFails
<1> QED BY <1>2, <1>3, <1>4, ReadFx, PostFx, AddFx, RemoveFx, StillFx
        DEF Next, Start, ReadCrontab, ReadNothing, CrontabFails, PostAnswered, PostFails,
            addCron, removeCron

(* A list is read of the table as it is, and shown as it was read.         *)
LEMMA LoadsFx ==
    ASSUME Framed, [Next]_vars
    PROVE  /\ loads' \in [Load -> [asked : BOOLEAN, got : SUBSET CronJob, edition : Nat]]
           /\ \A s \in Load :
                 \/ loads'[s] = loads[s]
                 \/ /\ loads'[s].got = parseCrontab(table) /\ loads'[s].edition = edition
                    /\ UNCHANGED <<table, edition>>
                 \/ loads'[s].got = {} /\ loads'[s].edition = loads[s].edition
                 \/ ~loads'[s].asked /\ loads'[s].edition = 0
           /\ crons' \in [jobs : SUBSET CronJob, edition : Nat]
           /\ \/ crons' = crons
              \/ \E s \in Load : /\ loads[s].asked /\ UNCHANGED <<table, edition>>
                                 /\ crons'.jobs = loads[s].got /\ crons'.edition = loads[s].edition
<1>0. /\ loads \in [Load -> [asked : BOOLEAN, got : SUBSET CronJob, edition : Nat]]
      /\ crons \in [jobs : SUBSET CronJob, edition : Nat] /\ edition \in Nat
      /\ parseCrontab(table) \subseteq CronJob
  BY ParseType DEF Framed
<1>1. CASE UNCHANGED <<loads, crons>>
  BY <1>0, <1>1
<1>2. ASSUME NEW s \in Load, Refresh(s) \/ Reload(s)
      PROVE  /\ UNCHANGED <<crons, table, edition>>
             /\ loads' = [loads EXCEPT ![s] = [asked |-> TRUE, got |-> parseCrontab(table),
                                               edition |-> edition]]
  BY <1>2 DEF Refresh, Reload, LoadCron
<1>3. ASSUME NEW s \in Load, CronArrives(s) \/ CronFails(s)
      PROVE  /\ loads' = [loads EXCEPT ![s] = [asked |-> FALSE, got |-> {}, edition |-> 0]]
             /\ loads[s].asked /\ UNCHANGED <<table, edition>>
             /\ \/ crons' = crons
                \/ crons' = [jobs |-> loads[s].got, edition |-> loads[s].edition]
  BY <1>3 DEF CronArrives, CronFails, Loaded
<1>4. CASE \E s \in Load : Refresh(s) \/ Reload(s)
  <2>1. PICK s \in Load : Refresh(s) \/ Reload(s)
    BY <1>4
  <2>2. PICK r \in [asked : BOOLEAN, got : SUBSET CronJob, edition : Nat] :
           r = [asked |-> TRUE, got |-> parseCrontab(table), edition |-> edition]
    BY <1>0
  <2>3. loads' = [loads EXCEPT ![s] = r] /\ UNCHANGED <<crons, table, edition>>
    BY <1>2, <2>1, <2>2
  <2>4. r.got = parseCrontab(table) /\ r.edition = edition
    BY <2>2
  <2> QED BY <1>0, <2>3, <2>4
<1>5. CASE \E s \in Load : CronArrives(s) \/ CronFails(s)
  <2>1. PICK s \in Load : CronArrives(s) \/ CronFails(s)
    BY <1>5
  <2>0. PICK r \in [asked : BOOLEAN, got : SUBSET CronJob, edition : Nat] :
           r = [asked |-> FALSE, got |-> {}, edition |-> 0]
    OBVIOUS
  <2>5. loads' = [loads EXCEPT ![s] = r] /\ ~r.asked /\ r.edition = 0
    BY <1>3, <2>0, <2>1
  <2>2. /\ loads' \in [Load -> [asked : BOOLEAN, got : SUBSET CronJob, edition : Nat]]
        /\ ~loads'[s].asked /\ loads'[s].edition = 0
        /\ \A u \in Load : u # s => loads'[u] = loads[u]
    BY <1>0, <2>5
  <2>3. loads[s] \in [asked : BOOLEAN, got : SUBSET CronJob, edition : Nat]
    BY <1>0
  <2>4. /\ crons' \in [jobs : SUBSET CronJob, edition : Nat]
        /\ \/ crons' = crons
           \/ crons'.jobs = loads[s].got /\ crons'.edition = loads[s].edition
    BY <1>0, <1>3, <2>1, <2>3
  <2> QED BY <1>3, <2>1, <2>2, <2>4
<1>6. CASE \E s \in Load : CronMisread(s)
  <2>1. PICK s \in Load : CronMisread(s)
    BY <1>6
  <2>2. PICK r \in [asked : BOOLEAN, got : SUBSET CronJob, edition : Nat] :
          r = [loads[s] EXCEPT !.got = {}]
    BY <1>0
  <2>3. r.got = {} /\ r.edition = loads[s].edition
    BY <1>0, <2>2
  <2>4. loads' = [loads EXCEPT ![s] = r] /\ UNCHANGED crons
    BY <1>0, <2>1, <2>2 DEF CronMisread
  <2> QED BY <1>0, <2>3, <2>4
<1> QED
  BY <1>1, <1>4, <1>5, <1>6
     DEF Next, Start, ReadCrontab, ReadNothing, WriteAdded, WriteRemoved, CrontabFails,
         PostAnswered, PostFails, addCron, removeCron

-----------------------------------------------------------------------------
(* The table and its copies.                                               *)

MeantOK ==
    /\ \A t \in DOMAIN change : change[t].meant \in Job
    /\ \A t, u \in DOMAIN change :
          change[t].kind = "add" /\ change[u].kind = "add" /\ t # u =>
             change[t].meant # change[u].meant
TablesOK ==
    /\ Good(table, status, change)
    /\ \A t \in DOMAIN change : change[t].read => Good(change[t].raw, status, change)
(* What is shown, asked and clicked is of the table of its edition; and so *)
(* is what a removal has read, if that is still the edition it saw.        *)
ShownOK ==
    /\ crons.edition <= edition /\ \A s \in Load : loads[s].edition <= edition
    /\ \A t \in DOMAIN change : change[t].saw <= edition
    /\ crons.edition = edition => crons.jobs \subseteq parseCrontab(table)
    /\ \A s \in Load : loads[s].asked /\ loads[s].edition = edition =>
          loads[s].got \subseteq parseCrontab(table)
    /\ \A t \in DOMAIN change : change[t].kind # "add" /\ change[t].saw = edition =>
          /\ [id |-> change[t].id, line |-> change[t].meant] \in parseCrontab(table)
          /\ change[t].read => change[t].raw = table \/ change[t].raw = << >>
WritesOK ==
    /\ writes \in Seq(Write) /\ Len(writes) = edition /\ Holds(writes, table, edition)
    /\ \A t \in DOMAIN change :
          /\ change[t].of \in Nat /\ change[t].of <= edition
          /\ change[t].read => Holds(writes, change[t].raw, change[t].of)
    /\ \A x \in Gone : Within(x, First) \/ \E t \in DOMAIN change : change[t].meant = x
    /\ \A t \in DOMAIN change :
          change[t].kind = "add" /\ status[t] \notin Terminal => change[t].meant \notin Gone
CronInv == Framed /\ MeantOK /\ TablesOK /\ ShownOK /\ WritesOK

LEMMA CronInit == Init => CronInv
<1> SUFFICES ASSUME Init PROVE CronInv
  OBVIOUS
<1>1. First \in Seq(Line)
  BY LinesAssumption DEF Line
<1>2. status \in Seq(Status) /\ change \in Seq(Change) /\ DOMAIN change = {}
  BY EmptySeq DEF Init
<1>3. Framed
  <2>1. parseCrontab(First) \subseteq CronJob
    BY <1>1, ParseType
  <2>2. loads \in [Load -> [asked : BOOLEAN, got : SUBSET CronJob, edition : Nat]]
    BY <2>1 DEF Init
  <2>3. crons \in [jobs : SUBSET CronJob, edition : Nat]
    BY DEF Init
  <2> QED BY <1>1, <1>2, <2>2, <2>3 DEF Init, Framed
<1>4. MeantOK
  BY <1>2 DEF MeantOK
<1>5. TablesOK
  BY <1>2, GoodFirst DEF Init, TablesOK
<1>6. ShownOK
  BY <1>2 DEF Init, ShownOK
<1>7. WritesOK
  <2>0. PICK w : w = [base |-> 0, put |-> ToSet(First), out |-> {}]
    OBVIOUS
  <2>1. w \in Write /\ w.put = ToSet(First) /\ w.out = {}
    <3>1. ToSet(First) \subseteq Line
      BY <1>1 DEF ToSet
    <3> QED BY <2>0, <3>1 DEF Write
  <2>2. writes \in Seq(Write) /\ Len(writes) = 1 /\ writes[1] = w /\ DOMAIN writes = {1}
    BY <2>0, <2>1 DEF Init
  <2>3. Gone = {}
    BY <2>1, <2>2 DEF Gone
  <2> QED BY <1>2, <2>1, <2>2, <2>3 DEF Init, WritesOK, Holds
<1> QED BY <1>3, <1>4, <1>5, <1>6, <1>7 DEF CronInv

LEMMA FramedStep ==
    ASSUME CronInv, [Next]_vars
    PROVE  Framed'
<1>1. Framed /\ TablesOK /\ MeantOK
  BY DEF CronInv
<1>2. Ledgered /\ ChangesFx
  BY <1>1, LedgerFx
<1>3. table' \in Seq(Line)
  <2>1. ASSUME NEW t \in DOMAIN status, WriteAdded(t) PROVE table' \in Seq(Line)
    <3>1. /\ change[t].read /\ t \in DOMAIN change
          /\ table' = Append(change[t].raw, change[t].meant)
      BY <1>1, <2>1 DEF WriteAdded, Install, Framed
    <3>2. change[t].raw \in Seq(Line) /\ change[t].meant \in Line
      BY <1>1, <3>1 DEF TablesOK, Good, MeantOK, Line
    <3> QED BY <3>1, <3>2
  <2>2. ASSUME NEW t \in DOMAIN status, Removes(t) PROVE table' \in Seq(Line)
    <3>0. PICK raw : raw = change[t].raw
      OBVIOUS
    <3>1. PICK i : i = CHOOSE j \in PlaceOf(raw, change[t].id) : TRUE
      OBVIOUS
    <3>2. /\ change[t].read /\ t \in DOMAIN change /\ i \in PlaceOf(raw, change[t].id)
          /\ table' = RemoveAt(raw, i)
      <4>1. change[t].read /\ t \in DOMAIN change /\ PlaceOf(raw, change[t].id) # {}
        BY <1>1, <2>2, <3>0 DEF Removes, WriteRemoved, Framed
      <4>2. i \in PlaceOf(raw, change[t].id)
        BY <3>1, <4>1
      <4> QED BY <2>2, <3>0, <3>1, <4>1, <4>2 DEF Removes, WriteRemoved, removeCronLine, Install
    <3>3. raw \in Seq(Line) /\ i \in DOMAIN raw
      BY <1>1, <3>0, <3>2 DEF TablesOK, Good, PlaceOf
    <3> QED BY <3>2, <3>3, RemoveIs
  <2> QED BY <1>1, <2>1, <2>2, LedgerFx DEF Framed
<1>4. edition' \in Nat
  <2>1. ASSUME NEW t \in DOMAIN status, WriteAdded(t) \/ Removes(t) PROVE edition' = edition + 1
    BY <2>1 DEF WriteAdded, Removes, WriteRemoved, Install
  <2> QED BY <1>1, <2>1, LedgerFx DEF Framed
<1>5. reloads' \in Nat
  <2>1. reloads \in Nat
    BY <1>1 DEF Framed
  <2>2. \/ reloads' = reloads \/ reloads' = reloads + 1
        \/ reloads > 0 /\ reloads' = reloads - 1
    BY DEF Next, Start, ReadCrontab, ReadNothing, WriteAdded, WriteRemoved, CrontabFails,
       PostAnswered, PostFails, addCron, removeCron, Refresh, Reload, CronArrives, CronMisread,
       CronFails
  <2> QED BY <2>1, <2>2
<1> QED BY <1>1, <1>2, <1>3, <1>4, <1>5, LoadsFx DEF Framed, Ledgered

LEMMA MeantStep ==
    ASSUME CronInv, [Next]_vars
    PROVE  MeantOK'
<1>1. ChangesFx /\ MeantOK
  BY LedgerFx DEF CronInv
<1>2. ASSUME NEW t \in DOMAIN change' PROVE change'[t].meant \in Job
  BY <1>1 DEF ChangesFx, Stays, New, MeantOK
<1>3. ASSUME NEW t \in DOMAIN change', NEW u \in DOMAIN change', t # u,
             change'[t].kind = "add", change'[u].kind = "add"
      PROVE  change'[t].meant # change'[u].meant
  <2>1. CASE t \in DOMAIN change /\ u \in DOMAIN change
    BY <1>1, <1>3, <2>1 DEF ChangesFx, Stays, MeantOK
  <2>2. CASE t \in DOMAIN change /\ u \notin DOMAIN change
    <3>1. Stays(t) /\ New(u)
      BY <1>1, <2>2 DEF ChangesFx
    <3>2. change'[t].meant = change[t].meant
      BY <3>1 DEF Stays
    <3>3. \A v \in DOMAIN change : change[v].meant # change'[u].meant
      BY <1>3, <3>1 DEF New
    <3> QED BY <2>2, <3>2, <3>3
  <2>3. CASE u \in DOMAIN change /\ t \notin DOMAIN change
    <3>1. Stays(u) /\ New(t)
      BY <1>1, <2>3 DEF ChangesFx
    <3>2. change'[u].meant = change[u].meant
      BY <3>1 DEF Stays
    <3>3. \A v \in DOMAIN change : change[v].meant # change'[t].meant
      BY <1>3, <3>1 DEF New
    <3> QED BY <2>3, <3>2, <3>3
  <2>4. CASE t \notin DOMAIN change /\ u \notin DOMAIN change
    BY <1>1, <1>3, <2>4 DEF ChangesFx
  <2> QED BY <2>1, <2>2, <2>3, <2>4
<1> QED BY <1>2, <1>3 DEF MeantOK

(* A copy stays good, whatever becomes of the changes.                     *)
LEMMA CopyStep ==
    ASSUME CronInv, [Next]_vars, NEW s, Good(s, status, change)
    PROVE  Good(s, status', change')
<1>1. ChangesFx
  BY LedgerFx DEF CronInv
<1>2. ASSUME NEW t \in DOMAIN change' \ DOMAIN change, change'[t].kind = "add"
      PROVE  ~Within(change'[t].meant, First) /\ \A v \in DOMAIN change : change[v].meant # change'[t].meant
  BY <1>1, <1>2 DEF ChangesFx, New
<1>3. ASSUME NEW t \in DOMAIN change
      PROVE  /\ t \in DOMAIN change' /\ change'[t].kind = change[t].kind
             /\ change'[t].meant = change[t].meant
             /\ status[t] \in Terminal => status'[t] \in Terminal
  BY <1>1 DEF ChangesFx, Stays
<1> QED BY <1>2, <1>3, GoodKept

(* What a task writes is good, and a removal that nothing overtook takes   *)
(* out what was meant.                                                     *)
LEMMA WriteFx ==
    ASSUME CronInv, [Next]_vars, NEW t \in DOMAIN status, WriteAdded(t) \/ Removes(t)
    PROVE  /\ Good(table', status', change') /\ edition' = edition + 1 /\ change' = change
           /\ \A u \in DOMAIN status : u # t => status'[u] = status[u]
           /\ Removes(t) /\ change[t].saw = edition =>
                /\ Len(table') = Len(table) - 1
                /\ ToSet(table') = ToSet(table) \ {change[t].meant}
<1>1. Framed /\ MeantOK /\ TablesOK /\ ShownOK
  BY DEF CronInv
<1>2. t \in DOMAIN change /\ DOMAIN change = DOMAIN status
  BY <1>1 DEF Framed
<1>3. /\ status[t] = "running" /\ change[t].read /\ change' = change /\ edition' = edition + 1
      /\ Set(t, "succeeded") \/ Set(t, "failed")
  BY DEF WriteAdded, Removes, WriteRemoved, Install, Told
<1>4. /\ {"succeeded", "failed"} \subseteq Status \cap Terminal
      /\ status[t] \notin Terminal
  BY <1>3 DEF Status, Terminal
<1>5. status'[t] \in Terminal /\ \A u \in DOMAIN status : u # t => status'[u] = status[u]
  BY <1>1, <1>3, <1>4, SetFx
<1>6. PICK raw : raw = change[t].raw /\ Good(raw, status, change)
  BY <1>1, <1>2, <1>3 DEF TablesOK
<1>7. CASE WriteAdded(t)
  <2>1. change[t].kind = "add" /\ table' = Append(raw, change[t].meant)
    BY <1>6, <1>7 DEF WriteAdded, Install
  <2>2. ~Removes(t)
    BY <2>1 DEF Removes, WriteRemoved
  <2>3. change[t].meant \in Job
    BY <1>1, <1>2 DEF MeantOK
  <2>4. \A u \in DOMAIN change : change[u].kind = "add" /\ u # t => change[u].meant # change[t].meant
    BY <1>1, <1>2, <2>1 DEF MeantOK
  <2>5. Good(Append(raw, change[t].meant), status', change)
    BY <1>2, <1>4, <1>5, <1>6, <2>1, <2>3, <2>4, GoodAppended
  <2> QED BY <1>3, <1>5, <1>7, <2>1, <2>2, <2>5
<1>8. CASE Removes(t)
  <2>1. PICK i : i = CHOOSE k \in PlaceOf(raw, change[t].id) : TRUE
    OBVIOUS
  <2>2. i \in PlaceOf(raw, change[t].id) /\ table' = RemoveAt(raw, i) /\ change[t].kind # "add"
    BY <1>6, <1>8, <2>1 DEF Removes, WriteRemoved, removeCronLine, Install
  <2>3. raw \in Seq(Line)
    BY <1>6 DEF Good
  <2>4. i \in DOMAIN raw /\ IsJob(raw[i])
    BY <2>2, <2>3, PlaceIs DEF Jobs
  <2>5. /\ Good(RemoveAt(raw, i), status, change)
        /\ Len(RemoveAt(raw, i)) = Len(raw) - 1
        /\ ToSet(RemoveAt(raw, i)) = ToSet(raw) \ {raw[i]}
    BY <1>6, <2>4, GoodRemoved
  <2>6. Good(table', status', change')
    BY <2>2, <2>5, CopyStep
  <2>7. ASSUME change[t].saw = edition
        PROVE  raw = table /\ raw[i] = change[t].meant
    <3>1. /\ [id |-> change[t].id, line |-> change[t].meant] \in parseCrontab(table)
          /\ raw = table \/ raw = << >>
      BY <1>1, <1>2, <1>3, <1>6, <2>2, <2>7 DEF ShownOK
    <3>2. raw = table
      BY <2>4, <3>1
    <3> QED BY <2>2, <2>3, <3>1, <3>2, PlaceUnique
  <2> QED BY <1>3, <1>5, <2>2, <2>5, <2>6, <2>7
<1> QED BY <1>7, <1>8

(* A write is noted with the edition it was made of and what it does to the *)
(* copy.                                                                    *)
LEMMA WriteNoted ==
    ASSUME CronInv, [Next]_vars, NEW t \in DOMAIN status, WriteAdded(t) \/ Removes(t)
    PROVE  /\ t \in DOMAIN change /\ change[t].read
           /\ \E w \in Write :
                 /\ writes' = Append(writes, w) /\ w.base = change[t].of
                 /\ w.put \subseteq ToSet(table') /\ w.out \cap ToSet(table') = {}
                 /\ ToSet(table') \subseteq ToSet(change[t].raw) \cup w.put
                 /\ ToSet(change[t].raw) \ w.out \subseteq ToSet(table')
                 /\ w.put \cap Gone = {} /\ w.out \subseteq ToSet(change[t].raw)
<1>1. Framed /\ MeantOK /\ TablesOK /\ WritesOK
  BY DEF CronInv
<1>2. /\ t \in DOMAIN change /\ change[t].read /\ status[t] = "running"
      /\ "running" \notin Terminal
  BY <1>1 DEF Framed, WriteAdded, Removes, WriteRemoved, Terminal
<1>0. PICK raw, x, of : raw = change[t].raw /\ x = change[t].meant /\ of = change[t].of
  OBVIOUS
<1>3. /\ raw = change[t].raw /\ x = change[t].meant /\ of = change[t].of
      /\ Good(raw, status, change) /\ x \in Job /\ x \in Line /\ raw \in Seq(Line) /\ of \in Nat
  BY <1>0, <1>1, <1>2 DEF TablesOK, MeantOK, WritesOK, Good, Line
<1>4. CASE WriteAdded(t)
  <2>0. PICK w : w = [base |-> of, put |-> {x}, out |-> {}]
    OBVIOUS
  <2>1. w \in Write /\ w.base = of /\ w.put = {x} /\ w.out = {}
    BY <1>3, <2>0 DEF Write
  <2>2. writes' = Append(writes, w) /\ table' = Append(raw, x) /\ change[t].kind = "add"
    BY <1>3, <1>4, <2>0 DEF WriteAdded, Install
  <2>3. ToSet(Append(raw, x)) = ToSet(raw) \cup {x}
    <3>0. PICK r, n : r = Append(raw, x) /\ n = Len(raw)
      OBVIOUS
    <3>1. /\ n \in Nat /\ DOMAIN raw = 1 .. n /\ Len(r) = n + 1 /\ r \in Seq(Line)
          /\ r[n + 1] = x /\ \A i \in 1 .. n : r[i] = raw[i]
      BY <1>3, <3>0
    <3>2. DOMAIN r = 1 .. n + 1 /\ \A i : i \in 1 .. n + 1 <=> i \in 1 .. n \/ i = n + 1
      BY <3>1
    <3> QED BY <3>0, <3>1, <3>2 DEF ToSet
  <2>4. x \notin Gone
    BY <1>1, <1>2, <1>3, <2>2 DEF WritesOK
  <2> QED BY <1>2, <1>3, <2>1, <2>2, <2>3, <2>4
<1>5. CASE Removes(t)
  <2>1. PICK i : i = CHOOSE k \in PlaceOf(raw, change[t].id) : TRUE
    OBVIOUS
  <2>2. i \in PlaceOf(raw, change[t].id)
    BY <1>3, <1>5, <2>1 DEF Removes
  <2>3. i \in DOMAIN raw /\ IsJob(raw[i])
    BY <1>3, <2>2, PlaceIs DEF Jobs
  <2>4. PICK to : to = RemoveAt(raw, i) /\ ToSet(to) = ToSet(raw) \ {raw[i]}
    BY <1>3, <2>3, GoodRemoved
  <2>5. ToSet(raw) \ ToSet(to) = {raw[i]} /\ raw[i] \in ToSet(raw)
    BY <2>3, <2>4 DEF ToSet
  <2>0. PICK w : w = [base |-> of, put |-> {}, out |-> {raw[i]}]
    OBVIOUS
  <2>6. w \in Write /\ w.base = of /\ w.put = {} /\ w.out = {raw[i]}
    BY <1>3, <2>0, <2>3 DEF Write, IsJob
  <2>7. removeCronLine(raw, change[t].id) = to
    BY <2>1, <2>4 DEF removeCronLine
  <2>8. table' = to /\ writes' = Append(writes, w)
    BY <1>3, <1>5, <2>0, <2>5, <2>7 DEF Removes, WriteRemoved, Install
  <2> QED BY <1>2, <1>3, <2>4, <2>5, <2>6, <2>8
<1> QED BY <1>4, <1>5

LEMMA WritesStep ==
    ASSUME CronInv, [Next]_vars
    PROVE  WritesOK'
<1>1. Framed /\ Framed' /\ MeantOK /\ ChangesFx /\ TablesOK /\ WritesOK
  BY LedgerFx, FramedStep DEF CronInv
<1>2. Gone = Outs(writes) /\ Gone' = Outs(writes')
  BY DEF Gone, Outs
<1>3. CASE UNCHANGED cron
  <2>1. /\ writes' \in Seq(Write) /\ Len(writes') = edition' /\ Holds(writes', table', edition')
        /\ UNCHANGED <<table, edition, writes>> /\ Gone' = Gone
        /\ edition \in Nat /\ DOMAIN writes = 1 .. edition
    BY <1>1, <1>2, <1>3 DEF WritesOK, Framed
  <2>2. \A s : Holds(writes, s, 0)
    BY <2>1 DEF Holds
  <2>3. ASSUME NEW t \in DOMAIN change'
        PROVE  /\ change'[t].of \in Nat /\ change'[t].of <= edition
               /\ change'[t].read => Holds(writes, change'[t].raw, change'[t].of)
    <3>1. CASE t \in DOMAIN change
      <4>1. Stays(t)
        BY <1>1, <3>1 DEF ChangesFx
      <4> QED BY <1>1, <2>1, <2>2, <3>1, <4>1 DEF Stays, WritesOK
    <3>2. CASE t \notin DOMAIN change
      <4>1. New(t)
        BY <1>1, <3>2 DEF ChangesFx
      <4>2. change'[t].of = 0 /\ ~change'[t].read
        BY <4>1 DEF New
      <4> QED BY <2>1, <4>2
    <3> QED BY <3>1, <3>2
  <2>4. ASSUME NEW x \in Gone PROVE Within(x, First) \/ \E t \in DOMAIN change' : change'[t].meant = x
    <3>1. \A t \in DOMAIN change : t \in DOMAIN change' /\ change'[t].meant = change[t].meant
      BY <1>1 DEF ChangesFx, Stays
    <3> QED BY <1>1, <3>1 DEF WritesOK
  <2>5. ASSUME NEW t \in DOMAIN change', change'[t].kind = "add", status'[t] \notin Terminal
        PROVE  change'[t].meant \notin Gone
    <3>1. CASE t \in DOMAIN change
      BY <1>1, <2>5, <3>1 DEF ChangesFx, Stays, WritesOK
    <3>2. CASE t \notin DOMAIN change
      BY <1>1, <2>5, <3>2 DEF ChangesFx, New, WritesOK
    <3> QED BY <3>1, <3>2
  <2> QED BY <2>1, <2>3, <2>4, <2>5 DEF WritesOK
<1>4. CASE \E u \in DOMAIN status : WriteAdded(u) \/ Removes(u)
  <2>1. PICK u \in DOMAIN status : WriteAdded(u) \/ Removes(u)
    BY <1>4
  <2>2. /\ edition' = edition + 1 /\ change' = change /\ u \in DOMAIN change /\ change[u].read
        /\ edition \in Nat
    BY <1>1, <2>1, WriteFx, WriteNoted DEF Framed
  <2>3. PICK w \in Write :
          /\ writes' = Append(writes, w) /\ w.base = change[u].of
          /\ w.put \subseteq ToSet(table') /\ w.out \cap ToSet(table') = {}
          /\ ToSet(table') \subseteq ToSet(change[u].raw) \cup w.put
          /\ ToSet(change[u].raw) \ w.out \subseteq ToSet(table')
          /\ w.put \cap Gone = {} /\ w.out \subseteq ToSet(change[u].raw)
    BY <2>1, WriteNoted
  <2>4. /\ writes \in Seq(Write) /\ Len(writes) = edition /\ w.base <= Len(writes)
        /\ Holds(writes, change[u].raw, w.base)
    BY <1>1, <2>2, <2>3 DEF WritesOK
  <2>5. Holds(writes', table', edition')
    BY <1>2, <2>2, <2>3, <2>4, HoldsNow
  <2>6. writes' \in Seq(Write) /\ Len(writes') = edition' /\ Gone' = Gone \cup w.out
    BY <1>2, <2>2, <2>3, <2>4, AppendIs
  <2>7. ASSUME NEW t \in DOMAIN change
        PROVE  /\ change[t].of \in Nat /\ change[t].of <= edition + 1
               /\ change[t].read => Holds(writes', change[t].raw, change[t].of)
    <3>1. change[t].of \in Nat /\ change[t].of <= edition
      BY <1>1 DEF WritesOK
    <3> QED BY <1>1, <2>2, <2>3, <2>4, <3>1, HoldsLater DEF WritesOK
  <2>8. Good(change[u].raw, status, change)
    BY <1>1, <2>2 DEF TablesOK
  <2>9. ASSUME NEW x \in w.out PROVE Within(x, change[u].raw)
    BY <2>3, <2>9 DEF Within, ToSet
  <2>10. \A x \in Gone' : Within(x, First) \/ \E t \in DOMAIN change : change[t].meant = x
    <3>1. ASSUME NEW x \in w.out
          PROVE  Within(x, First) \/ \E t \in DOMAIN change : change[t].meant = x
      BY <2>8, <2>9 DEF Good, Within
    <3> QED BY <1>1, <2>6, <3>1 DEF WritesOK
  <2>11. ASSUME NEW t \in DOMAIN change, change[t].kind = "add", status'[t] \notin Terminal
         PROVE  change[t].meant \notin Gone'
    <3>1. status[t] \notin Terminal
      BY <1>1, <2>11 DEF ChangesFx, Stays
    <3>2. ~Within(change[t].meant, change[u].raw)
      BY <2>8, <2>11, <3>1 DEF Good
    <3>3. change[t].meant \notin Gone
      BY <1>1, <2>11, <3>1 DEF WritesOK
    <3> QED BY <2>6, <2>9, <3>2, <3>3
  <2> QED BY <2>2, <2>5, <2>6, <2>7, <2>10, <2>11 DEF WritesOK
<1> QED BY <1>1, <1>3, <1>4, LedgerFx

LEMMA TablesStep ==
    ASSUME CronInv, [Next]_vars
    PROVE  TablesOK'
<1>1. ChangesFx /\ TablesOK /\ Framed
  BY LedgerFx DEF CronInv
<1>2. Good(table', status', change')
  <2>1. CASE UNCHANGED cron
    BY <1>1, <2>1, CopyStep DEF TablesOK
  <2> QED BY <1>1, <2>1, LedgerFx, WriteFx
<1>3. ASSUME NEW t \in DOMAIN change', change'[t].read
      PROVE  Good(change'[t].raw, status', change')
  <2>1. t \in DOMAIN change
    BY <1>1, <1>3 DEF ChangesFx, New
  <2>2. CASE change[t].read /\ change'[t].raw = change[t].raw
    BY <1>1, <2>1, <2>2, CopyStep DEF TablesOK
  <2>3. CASE change'[t].raw = table
    BY <1>1, <2>3, CopyStep DEF TablesOK
  <2>4. CASE change'[t].raw = << >>
    BY <2>4, GoodEmpty
  <2> QED BY <1>1, <1>3, <2>1, <2>2, <2>3, <2>4 DEF ChangesFx, Stays
<1> QED BY <1>2, <1>3 DEF TablesOK

LEMMA ShownStep ==
    ASSUME CronInv, [Next]_vars
    PROVE  ShownOK'
<1>1. ChangesFx /\ ShownOK /\ Framed
  BY LedgerFx DEF CronInv
<1>2. PICK e \in Nat : e = edition
  BY <1>1 DEF Framed
<1>3. /\ crons.edition \in Nat /\ \A s \in Load : loads[s].edition \in Nat
  BY <1>1 DEF Framed
<1>4. CASE UNCHANGED cron
  <2>1. /\ crons'.edition <= edition
        /\ crons'.edition = edition => crons'.jobs \subseteq parseCrontab(table)
    BY <1>1, LoadsFx DEF ShownOK
  <2>2. ASSUME NEW s \in Load
        PROVE  /\ loads'[s].edition <= edition
               /\ loads'[s].asked /\ loads'[s].edition = edition =>
                     loads'[s].got \subseteq parseCrontab(table)
    <3>1. CASE loads'[s] = loads[s]
      BY <1>1, <3>1 DEF ShownOK
    <3>2. CASE loads'[s].got = parseCrontab(table) /\ loads'[s].edition = edition
      BY <1>2, <3>2
    <3>3. CASE ~loads'[s].asked /\ loads'[s].edition = 0
      BY <1>2, <3>3
    <3>4. CASE loads'[s].got = {} /\ loads'[s].edition = loads[s].edition
      BY <1>1, <3>4 DEF ShownOK
    <3> QED BY <1>1, <3>1, <3>2, <3>3, <3>4, LoadsFx
  <2>3. ASSUME NEW t \in DOMAIN change'
        PROVE  /\ change'[t].saw <= edition
               /\ change'[t].kind # "add" /\ change'[t].saw = edition =>
                    /\ [id |-> change'[t].id, line |-> change'[t].meant] \in parseCrontab(table)
                    /\ change'[t].read => change'[t].raw = table \/ change'[t].raw = << >>
    <3>1. CASE t \in DOMAIN change
      BY <1>1, <3>1 DEF ChangesFx, Stays, ShownOK
    <3>2. CASE t \notin DOMAIN change
      <4>1. New(t)
        BY <1>1, <3>2 DEF ChangesFx
      <4>2. change'[t].kind = "add" => change'[t].saw <= edition
        BY <1>2, <4>1 DEF New
      <4>3. change'[t].kind # "add" => change'[t].saw <= edition
        BY <1>1, <4>1 DEF New, ShownOK
      <4> QED BY <1>1, <4>1, <4>2, <4>3 DEF New, ShownOK
    <3> QED BY <3>1, <3>2
  <2>4. parseCrontab(table)' = parseCrontab(table)
    BY <1>4 DEF parseCrontab
  <2> QED BY <1>4, <2>1, <2>2, <2>3, <2>4 DEF ShownOK
<1>5. CASE \E t \in DOMAIN status : WriteAdded(t) \/ Removes(t)
  <2>1. edition' = e + 1 /\ change' = change /\ UNCHANGED <<loads, crons>>
    BY <1>2, <1>5, WriteFx DEF WriteAdded, Removes, WriteRemoved
  <2>2. /\ crons.edition <= e /\ \A s \in Load : loads[s].edition <= e
        /\ \A t \in DOMAIN change : change[t].saw <= e
    BY <1>1, <1>2 DEF ShownOK
  <2>3. \A t \in DOMAIN change : change[t].saw \in Nat
    <3>1. \A t \in DOMAIN change : change[t] \in Change
      BY <1>1 DEF Framed
    <3> QED BY <3>1 DEF Change
  <2>4. /\ crons.edition <= e + 1 /\ crons.edition # e + 1
        /\ \A s \in Load : loads[s].edition <= e + 1 /\ loads[s].edition # e + 1
        /\ \A t \in DOMAIN change : change[t].saw <= e + 1 /\ change[t].saw # e + 1
    BY <1>2, <1>3, <2>2, <2>3
  <2> QED BY <2>1, <2>4 DEF ShownOK
<1> QED BY <1>1, <1>4, <1>5, LedgerFx

LEMMA CronStep == CronInv /\ [Next]_vars => CronInv'
BY FramedStep, MeantStep, TablesStep, ShownStep, WritesStep DEF CronInv

LEMMA CronAlways == Spec => []CronInv
BY CronInit, CronStep, PTL DEF Spec

(* Whatever copies of the table the tasks write back over each other, and  *)
(* whatever becomes of their answers: a line that was there or was put in  *)
(* stays, and a job that was taken out stays out, until a task writes that *)
(* had read the table before, or nothing; comments keep their order.       *)
THEOREM LinesCorrect == Spec => []LinesStay
<1>1. CronInv => LinesStay
  <2> SUFFICES ASSUME CronInv PROVE LinesStay
    OBVIOUS
  <2>1. Keeps(table) /\ Framed /\ WritesOK
    BY DEF CronInv, TablesOK, Good
  <2>2. DOMAIN writes = 1 .. edition /\ edition \in Nat /\ Gone = Outs(writes)
    BY <2>1 DEF WritesOK, Framed, Gone, Outs
  <2>3. ASSUME NEW e \in DOMAIN writes, ~Overtaken(e)
        PROVE  writes[e].put \ Gone \subseteq ToSet(table) /\ writes[e].out \cap ToSet(table) = {}
    <3>1. e <= edition /\ ~Passed(writes, e, edition)
      BY <2>2, <2>3 DEF Overtaken, Passed
    <3> QED BY <2>1, <2>2, <3>1 DEF WritesOK, Holds
  <2>4. Gone \cap Comment = {}
    <3>1. \A n \in DOMAIN writes : writes[n] \in Write
      BY <2>1 DEF WritesOK
    <3> QED BY <3>1, LinesAssumption DEF Write, Gone
  <2> QED BY <2>1, <2>3, <2>4 DEF Keeps, LinesStay
<1> QED BY <1>1, CronAlways, PTL

(* A removal takes out the job of the row it was chosen in and nothing     *)
(* else, when no other change was written since the page read its list:    *)
(* the number of a job is counted over the whole table for the list, and   *)
(* line by line for the removal.                                           *)
THEOREM RemovalCorrect == Spec => RemovesTheChosen
<1>1. CronInv /\ [Next]_vars =>
        [\A t \in DOMAIN status :
            LET c == change[t] IN
            c.kind = "remove" /\ c.saw = edition /\ edition' # edition /\ status'[t] # status[t]
               => /\ Len(table') = Len(table) - 1
                  /\ ToSet(table') = ToSet(table) \ {c.meant}]_vars
  <2> SUFFICES ASSUME CronInv, [Next]_vars, NEW t \in DOMAIN status,
                      change[t].kind = "remove", change[t].saw = edition, edition' # edition,
                      status'[t] # status[t]
               PROVE  /\ Len(table') = Len(table) - 1
                      /\ ToSet(table') = ToSet(table) \ {change[t].meant}
    OBVIOUS
  <2>1. PICK u \in DOMAIN status : WriteAdded(u) \/ Removes(u)
    BY LedgerFx DEF CronInv
  <2>2. u = t
    BY <2>1, WriteFx
  <2>3. Removes(t)
    BY <2>1, <2>2 DEF WriteAdded
  <2> QED BY <2>3, WriteFx
<1> QED BY <1>1, CronAlways, PTL DEF RemovesTheChosen, Spec

-----------------------------------------------------------------------------
(* Types: a write is of a task that then ends, a timer of a request that is *)
(* answered, and neither happens to one twice.                             *)

Written(st) == {t \in DOMAIN st : st[t] \in Terminal}
Answered(ch) == {t \in DOMAIN ch : ~ch[t].sent}
Counts ==
    /\ edition <= Cardinality(Written(status)) + 1
    /\ reloads <= Cardinality(Answered(change))
    /\ Len(status) <= MaxTasks
    /\ losses \in 0 .. MaxLosses /\ clicks \in 0 .. MaxClicks

LEMMA Finite ==
    ASSUME Ledgered
    PROVE  /\ IsFiniteSet(Written(status')) /\ Cardinality(Written(status')) \in Nat
           /\ Cardinality(Written(status')) <= Len(status')
           /\ IsFiniteSet(Answered(change')) /\ Cardinality(Answered(change')) \in Nat
           /\ Cardinality(Answered(change')) <= Len(status')
<1>1. PICK n \in Nat : n = Len(status') /\ DOMAIN status' = 1 .. n /\ DOMAIN change' = 1 .. n
  BY DEF Ledgered
<1>2. IsFiniteSet(1 .. n) /\ Cardinality(1 .. n) = n
  BY FS_Interval
<1>3. Written(status') \in SUBSET (1 .. n) /\ Answered(change') \in SUBSET (1 .. n)
  BY <1>1 DEF Written, Answered
<1> QED BY <1>1, <1>2, <1>3, FS_Subset, FS_CardinalityType

LEMMA Grows ==
    ASSUME NEW S, NEW T, IsFiniteSet(T), S \subseteq T
    PROVE  /\ Cardinality(S) \in Nat /\ Cardinality(T) \in Nat /\ Cardinality(S) <= Cardinality(T)
           /\ \A x \in T \ S : Cardinality(S) + 1 <= Cardinality(T)
<1>1. IsFiniteSet(S) /\ Cardinality(S) <= Cardinality(T)
  BY FS_Subset
<1>2. ASSUME NEW x \in T \ S PROVE Cardinality(S) + 1 <= Cardinality(T)
  <2>1. Cardinality(S \cup {x}) = Cardinality(S) + 1
    BY <1>1, FS_AddElement
  <2>2. S \cup {x} \in SUBSET T
    OBVIOUS
  <2> QED BY <2>1, <2>2, FS_Subset
<1> QED BY <1>1, <1>2, FS_CardinalityType

(* The length of the ledger, and the requests that are answered.           *)
LEMMA LengthFx ==
    ASSUME Framed, Len(status) <= MaxTasks, [Next]_vars
    PROVE  /\ Len(status') <= MaxTasks
           /\ \A t \in DOMAIN change : t \in DOMAIN change' /\ (~change[t].sent => ~change'[t].sent)
<1>1. Ledgered /\ ChangesFx
  BY LedgerFx
<1>2. /\ status \in Seq(Status) /\ change \in Seq(Change) /\ Len(status) \in Nat
      /\ Len(change) = Len(status) /\ MaxTasks \in Nat
  BY PageAssumption DEF Framed
<1>3. ASSUME NEW c, Create(c)
      PROVE  Len(status') <= MaxTasks /\ \A t \in DOMAIN change : change'[t] = change[t]
  <2>1. /\ status' = Append(status, "queued") /\ change' = Append(change, c)
        /\ Len(status) < MaxTasks
    BY <1>3 DEF Create
  <2>2. Len(status') = Len(status) + 1
    BY <1>2, <2>1
  <2>3. \A t \in DOMAIN change : change'[t] = change[t]
    BY <1>2, <2>1
  <2> QED BY <1>2, <2>1, <2>2, <2>3
<1>4. CASE UNCHANGED change
  <2>1. Len(status') = Len(status)
    BY <1>1, <1>2, <1>4 DEF Ledgered
  <2> QED BY <1>2, <1>4, <2>1
<1>5. ASSUME NEW t \in DOMAIN status,
             ReadCrontab(t) \/ ReadNothing(t) \/ PostAnswered(t) \/ PostFails(t)
      PROVE  /\ DOMAIN change' = DOMAIN change /\ Len(status') = Len(status)
             /\ \A u \in DOMAIN change : ~change[u].sent => ~change'[u].sent
  <2>1. status' = status
    BY <1>5 DEF ReadCrontab, ReadNothing, PostAnswered, PostFails
  <2> QED BY <1>5, <2>1, ReadFx, PostFx
<1>6. ASSUME NEW j \in Job, addCron(j) PROVE \E c : Create(c)
  BY <1>6 DEF addCron
<1>7. ASSUME NEW job \in crons.jobs, removeCron(job) PROVE \E c : Create(c)
  BY <1>7 DEF removeCron
<1>8. \/ UNCHANGED change \/ \E c : Create(c)
      \/ \E t \in DOMAIN status :
            ReadCrontab(t) \/ ReadNothing(t) \/ PostAnswered(t) \/ PostFails(t)
  BY <1>6, <1>7 DEF Next, Start, WriteAdded, WriteRemoved, CrontabFails,
     Refresh, Reload, CronArrives, CronMisread, CronFails
<1>9. \A t \in DOMAIN change : t \in DOMAIN change'
  BY <1>1 DEF ChangesFx, Stays
<1> QED BY <1>2, <1>3, <1>4, <1>5, <1>8, <1>9

LEMMA CountsStep ==
    ASSUME CronInv, Counts, [Next]_vars
    PROVE  Counts'
<1>1. Framed /\ Ledgered /\ ChangesFx /\ DOMAIN change = DOMAIN status
  BY LedgerFx DEF CronInv, Framed
<1>2. /\ Len(status') <= MaxTasks
      /\ \A t \in DOMAIN change : t \in DOMAIN change' /\ (~change[t].sent => ~change'[t].sent)
  BY <1>1, LengthFx DEF Counts
<1>3. DOMAIN change' = DOMAIN status'
  BY <1>1 DEF Ledgered
<1>4. PICK W, V, A, B : /\ W = Written(status) /\ V = Written(status')
                        /\ A = Answered(change) /\ B = Answered(change')
  OBVIOUS
<1>5. W \subseteq V /\ A \subseteq B
  BY <1>1, <1>2, <1>3, <1>4 DEF ChangesFx, Stays, Written, Answered
<1>6. /\ Cardinality(W) \in Nat /\ Cardinality(V) \in Nat /\ Cardinality(W) <= Cardinality(V)
      /\ \A x \in V \ W : Cardinality(W) + 1 <= Cardinality(V)
      /\ Cardinality(A) \in Nat /\ Cardinality(B) \in Nat /\ Cardinality(A) <= Cardinality(B)
      /\ \A x \in B \ A : Cardinality(A) + 1 <= Cardinality(B)
  BY <1>1, <1>4, <1>5, Finite, Grows
<1>7. /\ edition \in Nat /\ edition <= Cardinality(W) + 1 /\ reloads \in Nat /\ reloads <= Cardinality(A)
  BY <1>1, <1>4 DEF Counts, Framed
<1>8. edition' <= Cardinality(V) + 1
  <2>1. ASSUME NEW t \in DOMAIN status, WriteAdded(t) \/ Removes(t)
        PROVE  edition' = edition + 1 /\ t \in V \ W
    <3>1. status[t] = "running" /\ (Set(t, "succeeded") \/ Set(t, "failed"))
      BY <2>1 DEF WriteAdded, Removes, WriteRemoved, Told
    <3>2. /\ status[t] \notin Terminal /\ status'[t] \in Terminal
          /\ t \in DOMAIN status' /\ edition' = edition + 1
      BY <2>1, <3>1, WriteFx DEF Set, Terminal
    <3> QED BY <1>4, <3>2 DEF Written
  <2>2. \/ edition' = edition
        \/ edition' = edition + 1 /\ \E t : t \in V \ W
    <3>1. CASE edition' = edition
      BY <3>1
    <3>2. CASE edition' # edition
      <4>1. PICK t \in DOMAIN status : WriteAdded(t) \/ Removes(t)
        BY <1>1, <3>2, LedgerFx
      <4>2. edition' = edition + 1 /\ t \in V \ W
        BY <2>1, <4>1
      <4> QED BY <4>2
    <3> QED BY <3>1, <3>2
  <2> QED BY <1>6, <1>7, <2>2
<1>9. reloads' <= Cardinality(B)
  <2>1. ASSUME NEW t \in DOMAIN status, PostAnswered(t)
        PROVE  reloads' = reloads + 1 /\ t \in B \ A
    BY <1>1, <1>4, <2>1, PostFx DEF PostAnswered, Answered
  <2>2. \/ reloads' = reloads \/ \E t \in DOMAIN status : PostAnswered(t)
        \/ reloads > 0 /\ reloads' = reloads - 1
    BY DEF Next, Start, ReadCrontab, ReadNothing, WriteAdded, WriteRemoved, CrontabFails,
       PostFails, addCron, removeCron, Refresh, Reload, CronArrives, CronMisread, CronFails
  <2>3. \/ reloads' = reloads
        \/ reloads' = reloads + 1 /\ \E t : t \in B \ A
        \/ reloads > 0 /\ reloads' = reloads - 1
    <3>1. CASE \E t \in DOMAIN status : PostAnswered(t)
      <4>1. PICK t \in DOMAIN status : PostAnswered(t)
        BY <3>1
      <4>2. reloads' = reloads + 1 /\ t \in B \ A
        BY <2>1, <4>1
      <4> QED BY <4>2
    <3> QED BY <2>2, <3>1
  <2> QED BY <1>6, <1>7, <2>3
<1>10. losses' \in 0 .. MaxLosses /\ clicks' \in 0 .. MaxClicks
  <2>1. /\ losses \in Nat /\ losses <= MaxLosses /\ clicks \in Nat /\ clicks <= MaxClicks
        /\ MaxLosses \in Nat /\ MaxClicks \in Nat
    BY PageAssumption DEF Counts
  <2>2. UNCHANGED bounds \/ Lost \/ Click
    BY DEF Next, Start, ReadCrontab, ReadNothing, WriteAdded, WriteRemoved, Told, CrontabFails,
       PostAnswered, PostFails, addCron, removeCron, Refresh, Reload, CronArrives, CronMisread,
       CronFails
  <2> QED BY <2>1, <2>2 DEF Lost, Click
<1> QED BY <1>2, <1>4, <1>8, <1>9, <1>10 DEF Counts

(* Types: no more writes than tasks, no more timers than requests, and     *)
(* what the page shows or is told is of an edition there was.              *)
THEOREM TypeCorrect == Spec => []TypeOK
<1>1. Init => CronInv /\ Counts
  <2> SUFFICES ASSUME Init PROVE Counts
    BY CronInit
  <2>1. /\ Cardinality(Written(status)) = 0 /\ Cardinality(Answered(change)) = 0
        /\ Len(status) = 0
    <3>1. Written(status) = {} /\ Answered(change) = {} /\ Len(status) = 0
      BY DEF Init, Written, Answered
    <3>2. Cardinality({}) = 0
      BY FS_EmptySet
    <3> QED BY <3>1, <3>2, Zenon
  <2> QED BY <2>1, PageAssumption DEF Init, Counts
<1>2. CronInv /\ Counts /\ [Next]_vars => CronInv' /\ Counts'
  BY CronStep, CountsStep
<1>3. CronInv /\ Counts => TypeOK
  <2> SUFFICES ASSUME CronInv, Counts PROVE TypeOK
    OBVIOUS
  <2>1. Framed /\ ShownOK /\ Counts
    BY DEF CronInv
  <2>2. PICK n \in Nat : n = Len(status) /\ DOMAIN status = 1 .. n /\ DOMAIN change = 1 .. n
    BY <2>1 DEF Framed
  <2>3. Written(status) \in SUBSET (1 .. n) /\ Answered(change) \in SUBSET (1 .. n)
    BY <2>2 DEF Written, Answered
  <2>4. /\ Cardinality(Written(status)) \in Nat /\ Cardinality(Written(status)) <= n
        /\ Cardinality(Answered(change)) \in Nat /\ Cardinality(Answered(change)) <= n
    <3>1. IsFiniteSet(1 .. n) /\ Cardinality(1 .. n) = n
      BY FS_Interval
    <3> QED BY <2>3, <3>1, FS_Subset, FS_CardinalityType
  <2>5. edition <= n + 1 /\ reloads \in 0 .. n
    BY <2>1, <2>4 DEF Framed, Counts
  <2>6. /\ \A s \in Load : loads[s].got \subseteq CronJob /\ loads[s].edition <= edition
        /\ crons.jobs \subseteq CronJob /\ crons.edition <= edition
    BY <2>1 DEF Framed, ShownOK
  <2>7. /\ writes \in Seq([base : Nat, put : SUBSET Line, out : SUBSET Job])
        /\ Len(writes) = edition
    BY DEF CronInv, WritesOK, Write
  <2> QED BY <2>1, <2>2, <2>5, <2>6, <2>7 DEF Framed, Counts, TypeOK
<1> QED BY <1>1, <1>2, <1>3, PTL DEF Spec
=============================================================================
