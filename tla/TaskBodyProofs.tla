--------------------------- MODULE TaskBodyProofs ---------------------------
(***************************************************************************)
(* For every loop body, shard, rank of the operands and width of an index: *)
(* offsets are exact, and the tasks of a regular body do what the source's *)
(* iterations do.                                                          *)
(***************************************************************************)
EXTENDS TaskBody, TLAPS

-----------------------------------------------------------------------------
(* Words wrap around.                                                      *)

LEMMA ModRange ==
  ASSUME NEW x \in Int, NEW m \in Nat, m > 0
  PROVE  x % m \in 0 .. m - 1
OBVIOUS

LEMMA ModDefinition ==
  ASSUME NEW x \in Int, NEW m \in Nat, m > 0
  PROVE  x = m * (x \div m) + (x % m) /\ x \div m \in Int
OBVIOUS

LEMMA RemainderUnique ==
  ASSUME NEW m \in Nat, m > 0, NEW p \in Int, NEW q \in Int,
         NEW r \in 0 .. m - 1, NEW s \in 0 .. m - 1,
         m * q + r = m * p + s
  PROVE  r = s
<1>1. m * (q - p) = s - r
  OBVIOUS
<1>2. CASE q - p > 0
  <2>1. m * (q - p) >= m
    BY <1>2
  <2> QED BY <2>1, <1>1
<1>3. CASE q - p < 0
  <2>1. m * (q - p) <= -m
    BY <1>3
  <2> QED BY <2>1, <1>1
<1>4. CASE q = p
  BY <1>4
<1> QED BY <1>2, <1>3, <1>4

(* Adding a multiple of the modulus changes nothing.                       *)
LEMMA ModShift ==
  ASSUME NEW m \in Nat, m > 0, NEW x \in Int, NEW k \in Int
  PROVE  (x + m * k) % m = x % m
<1> DEFINE y == x + m * k
           p == x \div m
           q == y \div m
<1>0. m * k \in Int
  OBVIOUS
<1>1. x = m * p + (x % m) /\ p \in Int
  BY ModDefinition
<1>2. y \in Int /\ y = m * q + (y % m) /\ q \in Int
  BY ModDefinition, <1>0
<1>3. x % m \in 0 .. m - 1 /\ y % m \in 0 .. m - 1
  BY ModRange, <1>2
<1>4. m * (p + k) = m * p + m * k
  BY <1>1
<1>5. m * q + (y % m) = m * (p + k) + (x % m)
  <2> DEFINE yr == y % m
             xr == x % m
             mk == m * k
             mp == m * p
             mq == m * q
  <2>1. y = x + mk
    OBVIOUS
  <2>2. mp \in Int /\ mq \in Int /\ mk \in Int /\ xr \in Int /\ yr \in Int
    BY <1>1, <1>2, <1>3, <1>0
  <2>3. x = mp + xr /\ y = mq + yr
    BY <1>1, <1>2
  <2>4. m * (p + k) = mp + mk
    BY <1>4
  <2> HIDE DEF y, p, q, yr, xr, mk, mp, mq
  <2>5. mq + yr = (mp + mk) + xr
    BY <2>1, <2>2, <2>3
  <2> QED BY <2>4, <2>5 DEF yr, xr, mk, mp, mq
<1>6. p + k \in Int
  BY <1>1
<1> HIDE DEF y, p, q
<1>7. y % m = x % m
  BY <1>2, <1>3, <1>5, <1>6, RemainderUnique
<1> QED BY <1>7 DEF y

Modulus == 2 * MaxInt + 2

LEMMA WrapInWord ==
  ASSUME NEW n \in Int
  PROVE  Wrap(n) \in Word
<1>1. n + MaxInt + 1 \in Int /\ Modulus \in Nat /\ Modulus > 0
  BY TaskAssumption DEF Modulus
<1>2. (n + MaxInt + 1) % Modulus \in 0 .. Modulus - 1
  BY <1>1, ModRange
<1> QED BY <1>2, TaskAssumption DEF Wrap, Word, Modulus

LEMMA WrapOfWord ==
  ASSUME NEW n \in Word
  PROVE  Wrap(n) = n
<1> DEFINE x == n + MaxInt + 1
<1>1. x \in 0 .. Modulus - 1 /\ Modulus \in Nat /\ Modulus > 0 /\ x \in Int
  BY TaskAssumption DEF Modulus, Word
<1>2. x = Modulus * (x \div Modulus) + (x % Modulus) /\ x \div Modulus \in Int
  BY <1>1, ModDefinition
<1>3. x % Modulus \in 0 .. Modulus - 1
  BY <1>1, ModRange
<1>4. Modulus * (x \div Modulus) + (x % Modulus) = Modulus * 0 + x
  BY <1>1, <1>2
<1> HIDE DEF x
<1>5. x % Modulus = x
  BY <1>1, <1>2, <1>3, <1>4, RemainderUnique
<1> QED BY <1>5, TaskAssumption DEF x, Wrap, Modulus, Word

LEMMA WrapAgain ==
  ASSUME NEW a \in Int, NEW b \in Int
  PROVE  Wrap(Wrap(a) + b) = Wrap(a + b)
<1> DEFINE x == a + MaxInt + 1
           q == x \div Modulus
           y == a + b + MaxInt + 1
<1>1. x \in Int /\ y \in Int /\ Modulus \in Nat /\ Modulus > 0
  BY TaskAssumption DEF Modulus
<1>2. x = Modulus * q + (x % Modulus) /\ q \in Int
  BY <1>1, ModDefinition
<1>3. Wrap(a) = (x % Modulus) - MaxInt - 1
  BY DEF Wrap, Modulus
<1>4. x % Modulus \in Int
  BY <1>1, ModRange
<1>5. Wrap(a) + b + MaxInt + 1 = y + Modulus * (-q)
  <2> DEFINE r == x % Modulus
             t == Modulus * q
             w == Wrap(a)
  <2>1. t \in Int /\ r \in Int
    BY <1>1, <1>2, <1>4
  <2>2. Modulus * (-q) = -t
    BY <1>1, <1>2
  <2>3. x = t + r /\ w = r - MaxInt - 1
    BY <1>2, <1>3
  <2>4. x = a + MaxInt + 1 /\ y = a + b + MaxInt + 1
    OBVIOUS
  <2> HIDE DEF x, y, q, r, t, w
  <2>5. w + b + MaxInt + 1 = y + (-t)
    BY <2>1, <2>3, <2>4, TaskAssumption
  <2> QED BY <2>2, <2>5 DEF w
<1>6. -q \in Int
  BY <1>2
<1> HIDE DEF x, q
<1>7. (y + Modulus * (-q)) % Modulus = y % Modulus
  BY <1>1, <1>6, ModShift
<1> QED BY <1>5, <1>7 DEF Wrap, Modulus, y

-----------------------------------------------------------------------------
(* The invariant.                                                          *)

Results == [Iterations -> Word]

(* Value v of a body: its operands and what it relates to come before it.  *)
WellFormed(w, v) ==
  /\ w.from \subseteq 1 .. v - 1
  /\ w.constant \in Word
  /\ w.plain \in Results /\ w.moved \in Results
  /\ DOMAIN w.offset \subseteq 1 .. v
  /\ \A u \in DOMAIN w.offset : w.offset[u] \in Word
  /\ w.op = "constant" => \A i \in Iterations : w.plain[i] = w.constant /\ w.moved[i] = w.constant

ValuesOK ==
  /\ \E S : values \in Seq(S)
  /\ Len(values) > 0
  /\ values[IV] = InductionVariable
  /\ \A v \in Values : WellFormed(values[v], v)

AccessesOK ==
  \A a \in accesses :
    /\ a.mem \in Memrefs
    /\ a.indices \in [1 .. RankOf[a.mem] -> Values]
    /\ a.stored \in Values \cup {Datum}

(* A value is related to value u by an exact offset.                       *)
ExactTo(w, x, c) ==
  \A i \in Iterations : w.plain[i] = Wrap(x.plain[i] + c) /\ w.moved[i] = Wrap(x.moved[i] + c)

(* The part of supportedIVUse that is about computed values.               *)
UsersSupported ==
  \A v \in Tracked : \A w \in Users(v) :
    \/ values[w].op = "load"
    \/ values[w].op \in {"add", "sub"} /\ Derives(w, IV)

(* What is not an offset of the induction variable does not depend on it.  *)
Steady == UsersSupported => \A v \in Values \ Tracked : values[v].plain = values[v].moved

IInv == ValuesOK /\ AccessesOK /\ OffsetsExact /\ Steady

-----------------------------------------------------------------------------
(* What a new value must be to keep the invariant.                         *)

Next1 == Len(values) + 1

NewExact(w) ==
  \A u \in DOMAIN w.offset :
    ExactTo(w, IF u = Next1 THEN w ELSE values[u], w.offset[u])

NewSteady(w) ==
  IV \notin DOMAIN w.offset =>
    \/ w.plain = w.moved
    \/ /\ w.op # "load"
       /\ (\A v \in w.from : values[v].plain = values[v].moved) => w.plain = w.moved

NewValue(w) == WellFormed(w, Next1) /\ NewExact(w) /\ NewSteady(w)

LEMMA Appended ==
  ASSUME NEW S, NEW s \in Seq(S), NEW e
  PROVE  /\ Append(s, e) \in Seq(S \cup {e})
         /\ Len(s) \in Nat
         /\ Len(Append(s, e)) = Len(s) + 1
         /\ DOMAIN s = 1 .. Len(s)
         /\ DOMAIN Append(s, e) = 1 .. Len(s) + 1
         /\ \A k \in 1 .. Len(s) : Append(s, e)[k] = s[k]
         /\ Append(s, e)[Len(s) + 1] = e
OBVIOUS

LEMMA DefinedValues ==
  ASSUME ValuesOK, NEW w, values' = Append(values, w)
  PROVE  /\ \E S : values' \in Seq(S)
         /\ Len(values) \in Nat /\ Len(values') = Next1
         /\ Values = 1 .. Len(values)
         /\ Values' = Values \cup {Next1}
         /\ Next1 \notin Values
         /\ \A v \in Values : values'[v] = values[v]
         /\ values'[Next1] = w
         /\ IV \in Values /\ IV # Next1
<1>1. PICK S : values \in Seq(S)
  BY DEF ValuesOK
<1>2. values \in Seq(S \cup {w}) /\ Append(values, w) \in Seq(S \cup {w})
  BY <1>1, Appended
<1> QED BY <1>1, <1>2, Appended DEF ValuesOK, Next1, Values, IV

LEMMA DefineStep ==
  ASSUME ValuesOK, OffsetsExact, Steady, NEW w, values' = Append(values, w), NewValue(w)
  PROVE  ValuesOK' /\ OffsetsExact' /\ Steady'
<1>1. /\ \E S : values' \in Seq(S)
      /\ Len(values) \in Nat /\ Len(values') = Next1
      /\ Values = 1 .. Len(values)
      /\ Values' = Values \cup {Next1}
      /\ Next1 \notin Values
      /\ \A v \in Values : values'[v] = values[v]
      /\ values'[Next1] = w
      /\ IV \in Values /\ IV # Next1
  BY DefinedValues
<1>2. \A v \in Values : WellFormed(values[v], v)
  BY DEF ValuesOK
<1>3. \A v \in Values : DOMAIN values[v].offset \subseteq Values /\ values[v].from \subseteq Values
  BY <1>1, <1>2 DEF WellFormed
<1>4. DOMAIN w.offset \subseteq Values \cup {Next1} /\ w.from \subseteq Values
  BY <1>1 DEF NewValue, WellFormed, Next1
<1>5. ValuesOK'
  <2>1. \A v \in Values' : WellFormed(values'[v], v)
    BY <1>1, <1>2 DEF NewValue
  <2> QED BY <1>1, <2>1 DEF ValuesOK, Next1
<1>6. OffsetsExact'
  <2> SUFFICES ASSUME NEW v \in Values', NEW u \in DOMAIN values'[v].offset, NEW i \in Iterations
               PROVE  /\ values'[v].plain[i] = Wrap(values'[u].plain[i] + values'[v].offset[u])
                      /\ values'[v].moved[i] = Wrap(values'[u].moved[i] + values'[v].offset[u])
    BY DEF OffsetsExact
  <2>1. CASE v \in Values
    BY <2>1, <1>1, <1>3 DEF OffsetsExact
  <2>2. CASE v = Next1
    <3>1. values'[u] = IF u = Next1 THEN w ELSE values[u]
      BY <1>1, <1>4, <2>2
    <3> QED BY <1>1, <2>2, <3>1 DEF NewValue, NewExact, ExactTo
  <2> QED BY <1>1, <2>1, <2>2
<1>7. Steady'
  <2> SUFFICES ASSUME UsersSupported', NEW v \in (Values \ Tracked)'
               PROVE  values'[v].plain = values'[v].moved
    BY DEF Steady
  <2>1. \A u \in Values : u \in Tracked <=> u \in Tracked'
    BY <1>1 DEF Tracked, Derives
  <2>2. \A u \in Values : Users(u) \subseteq Users(u)'
    BY <1>1 DEF Users
  <2>3. \A u, x \in Values : x \in Users(u) => (values'[x] = values[x] /\ (Derives(x, IV) <=> Derives(x, IV)'))
    BY <1>1 DEF Users, Derives
  <2>4. UsersSupported
    BY <1>1, <2>1, <2>2, <2>3 DEF UsersSupported, Tracked, Users
  <2>5. \A u \in Values \ Tracked : values[u].plain = values[u].moved
    BY <2>4 DEF Steady
  <2>6. CASE v \in Values
    BY <2>1, <2>5, <2>6, <1>1
  <2>7. CASE v = Next1
    <3>1. IV \notin DOMAIN w.offset
      BY <1>1, <2>7 DEF Tracked, Derives
    <3>2. CASE w.plain = w.moved
      BY <3>2, <2>7, <1>1
    <3>3. CASE w.op # "load" /\ ((\A x \in w.from : values[x].plain = values[x].moved) => w.plain = w.moved)
      <4>1. ASSUME NEW x \in w.from PROVE x \notin Tracked
        <5> SUFFICES ASSUME x \in Tracked PROVE FALSE
          OBVIOUS
        <5>1. x \in Values /\ x \in Tracked'
          BY <1>4, <2>1
        <5>2. Next1 \in Users(x)'
          BY <1>1 DEF Users
        <5>3. IV \notin DOMAIN values'[Next1].offset
          BY <3>1, <1>1
        <5>4. values'[Next1].op # "load"
          BY <3>3, <1>1
        <5>5. \A y \in Users(x)' : values'[y].op = "load" \/ IV \in DOMAIN values'[y].offset
          BY <5>1 DEF UsersSupported, Derives
        <5>6. IV \in DOMAIN values'[Next1].offset
          BY <5>2, <5>4, <5>5
        <5> QED BY <5>3, <5>6
      <4>2. \A x \in w.from : values[x].plain = values[x].moved
        BY <4>1, <1>4, <2>5
      <4> QED BY <4>2, <3>3, <2>7, <1>1
    <3> QED BY <3>1, <3>2, <3>3 DEF NewValue, NewSteady
  <2> QED BY <1>1, <2>6, <2>7
<1> QED BY <1>5, <1>6, <1>7

-----------------------------------------------------------------------------
(* The values the actions define.                                          *)

LEMMA ValueFacts ==
  ASSUME ValuesOK
  PROVE  /\ Len(values) \in Nat /\ Values = 1 .. Len(values) /\ IV \in Values
         /\ Next1 \in Nat /\ Next1 \notin Values /\ Values = 1 .. Next1 - 1
BY Appended DEF ValuesOK, Next1, Values, IV

(* A value that does not move relates to itself only.                      *)
LEMMA FixedValue ==
  ASSUME ValuesOK, NEW op, NEW operands \in SUBSET Values, NEW c \in Word, NEW f \in Results,
         op = "constant" => \A i \in Iterations : f[i] = c
  PROVE  NewValue(Fixed(op, operands, c, f))
<1> DEFINE w == Fixed(op, operands, c, f)
<1>0. /\ Len(values) \in Nat /\ Values = 1 .. Len(values) /\ IV \in Values
      /\ Next1 \in Nat /\ Next1 \notin Values /\ Values = 1 .. Next1 - 1
  BY ValueFacts
<1>1. w.offset = [u \in {Next1} |-> 0]
  BY DEF Fixed, ToItself, Fails, Next1
<1>2. w.op = op /\ w.from = operands /\ w.constant = c /\ w.plain = f /\ w.moved = f
  BY DEF Fixed
<1>3. DOMAIN w.offset = {Next1} /\ w.offset[Next1] = 0
  BY <1>1
<1>4. 0 \in Word
  BY TaskAssumption DEF Word
<1> HIDE DEF w
<1>5. WellFormed(w, Next1)
  BY <1>0, <1>2, <1>3, <1>4 DEF WellFormed
<1>6. NewExact(w)
  <2>1. \A i \in Iterations : f[i] \in Word
    BY DEF Results
  <2>2. \A n \in Word : n + 0 = n /\ Wrap(n) = n
    BY WrapOfWord, TaskAssumption DEF Word
  <2>3. \A i \in Iterations : f[i] = Wrap(f[i] + 0)
    BY <2>1, <2>2
  <2>4. ExactTo(w, w, 0)
    BY <2>3, <1>2 DEF ExactTo
  <2> QED BY <1>3, <2>4 DEF NewExact
<1>7. NewSteady(w)
  BY <1>2 DEF NewSteady
<1> QED BY <1>5, <1>6, <1>7 DEF NewValue, w

(* What an entry of an offset table must say of the value that is computed.*)
TableExact(op, a, b, table) ==
  /\ DOMAIN table \subseteq Values
  /\ \A u \in DOMAIN table :
       /\ table[u] \in Word
       /\ \A i \in Iterations :
            /\ Result(op, values[a].plain[i], values[b].plain[i]) = Wrap(values[u].plain[i] + table[u])
            /\ Result(op, values[a].moved[i], values[b].moved[i]) = Wrap(values[u].moved[i] + table[u])

LEMMA ResultInWord ==
  ASSUME NEW op, NEW x \in Word, NEW y \in Word
  PROVE  Result(op, x, y) \in Word
<1>1. x + y \in Int /\ x - y \in Int /\ x * y \in Int
  BY TaskAssumption DEF Word
<1> DEFINE r == CASE op = "add" -> x + y [] op = "sub" -> x - y [] OTHER -> x * y
<1>2. r \in Int
  BY <1>1
<1>3. Result(op, x, y) = Wrap(r)
  BY DEF Result
<1> HIDE DEF r
<1> QED BY <1>2, <1>3, WrapInWord

LEMMA ComputedValue ==
  ASSUME ValuesOK, NEW op \in {"add", "sub", "other"}, NEW a \in Values, NEW b \in Values,
         NEW table, TableExact(op, a, b, table)
  PROVE  NewValue(Computed(op, a, b, table))
<1> DEFINE w == Computed(op, a, b, table)
<1>0. /\ Len(values) \in Nat /\ Values = 1 .. Len(values) /\ IV \in Values
      /\ Next1 \in Nat /\ Next1 \notin Values /\ Values = 1 .. Next1 - 1
  BY ValueFacts
<1>1. w.offset = [u \in DOMAIN table \cup {Next1} |-> IF u = Next1 THEN 0 ELSE table[u]]
  BY DEF Computed, ToItself, Next1
<1>2. /\ w.op = op /\ w.from = {a, b} /\ w.constant = 0
      /\ w.plain = [i \in Iterations |-> Result(op, values[a].plain[i], values[b].plain[i])]
      /\ w.moved = [i \in Iterations |-> Result(op, values[a].moved[i], values[b].moved[i])]
  BY DEF Computed
<1>3. /\ DOMAIN w.offset = DOMAIN table \cup {Next1}
      /\ w.offset[Next1] = 0
      /\ \A u \in DOMAIN table : w.offset[u] = table[u] /\ u # Next1
  BY <1>0, <1>1 DEF TableExact
<1>4. 0 \in Word
  BY TaskAssumption DEF Word
<1>5. \A v \in {a, b} : values[v].plain \in Results /\ values[v].moved \in Results
  BY DEF ValuesOK, WellFormed
<1>6. w.plain \in Results /\ w.moved \in Results
  BY <1>2, <1>5, ResultInWord DEF Results
<1> HIDE DEF w
<1>7. WellFormed(w, Next1)
  <2>1. DOMAIN w.offset \subseteq 1 .. Next1
    BY <1>0, <1>3 DEF TableExact
  <2>2. \A u \in DOMAIN w.offset : w.offset[u] \in Word
    BY <1>3, <1>4 DEF TableExact
  <2>3. w.from \subseteq 1 .. Next1 - 1
    BY <1>0, <1>2
  <2> QED BY <1>2, <1>4, <1>6, <2>1, <2>2, <2>3 DEF WellFormed
<1>8. NewExact(w)
  <2> SUFFICES ASSUME NEW u \in DOMAIN w.offset
               PROVE  ExactTo(w, IF u = Next1 THEN w ELSE values[u], w.offset[u])
    BY DEF NewExact
  <2>1. CASE u = Next1
    <3>1. \A n \in Word : n + 0 = n /\ Wrap(n) = n
      BY WrapOfWord, TaskAssumption DEF Word
    <3>2. \A i \in Iterations : w.plain[i] \in Word /\ w.moved[i] \in Word
      BY <1>6 DEF Results
    <3>3. ExactTo(w, w, 0)
      BY <3>1, <3>2 DEF ExactTo
    <3> QED BY <2>1, <3>3, <1>3
  <2>2. CASE u \in DOMAIN table
    <3>1. \A i \in Iterations : /\ w.plain[i] = Wrap(values[u].plain[i] + table[u])
                                /\ w.moved[i] = Wrap(values[u].moved[i] + table[u])
      BY <1>2, <2>2 DEF TableExact
    <3> QED BY <2>2, <3>1, <1>3 DEF ExactTo
  <2> QED BY <1>3, <2>1, <2>2
<1>9. NewSteady(w)
  <2>1. ASSUME \A v \in w.from : values[v].plain = values[v].moved
        PROVE  w.plain = w.moved
    BY <2>1, <1>2
  <2> QED BY <2>1, <1>2 DEF NewSteady
<1> QED BY <1>7, <1>8, <1>9 DEF NewValue, w

LEMMA EmptyTable ==
  ASSUME NEW op, NEW a, NEW b
  PROVE  TableExact(op, a, b, Fails)
BY DEF TableExact, Fails

LEMMA ShiftedTable ==
  ASSUME ValuesOK, OffsetsExact, NEW op, NEW a \in Values, NEW b \in Values, NEW x \in Values,
         NEW c \in Int,
         \A i \in Iterations :
           /\ Result(op, values[a].plain[i], values[b].plain[i]) = Wrap(values[x].plain[i] + c)
           /\ Result(op, values[a].moved[i], values[b].moved[i]) = Wrap(values[x].moved[i] + c)
  PROVE  TableExact(op, a, b, checkedAdd(x, c))
<1> DEFINE t == values[x].offset
           table == checkedAdd(x, c)
<1>0. Values = 1 .. Next1 - 1 /\ Next1 \in Nat
  BY ValueFacts
<1>1. WellFormed(values[x], x)
  BY DEF ValuesOK
<1>2. DOMAIN t \subseteq Values /\ \A u \in DOMAIN t : t[u] \in Word
  BY <1>0, <1>1 DEF WellFormed
<1>3. table = [u \in {v \in DOMAIN t : t[v] + c \in Word} |-> t[u] + c]
  BY DEF checkedAdd
<1>4. /\ DOMAIN table \subseteq DOMAIN t
      /\ \A u \in DOMAIN table : table[u] = t[u] + c /\ table[u] \in Word
  BY <1>3
<1> SUFFICES ASSUME NEW u \in DOMAIN table, NEW i \in Iterations
             PROVE  /\ Result(op, values[a].plain[i], values[b].plain[i]) = Wrap(values[u].plain[i] + table[u])
                    /\ Result(op, values[a].moved[i], values[b].moved[i]) = Wrap(values[u].moved[i] + table[u])
  BY <1>2, <1>4 DEF TableExact
<1>5. u \in Values /\ u \in DOMAIN t /\ t[u] \in Int /\ table[u] = t[u] + c
  BY <1>2, <1>4, TaskAssumption DEF Word
<1>6. values[u].plain[i] \in Int /\ values[u].moved[i] \in Int
  <2>1. WellFormed(values[u], u)
    BY <1>5 DEF ValuesOK
  <2> QED BY <2>1, TaskAssumption DEF WellFormed, Results, Word
<1>7. /\ values[x].plain[i] = Wrap(values[u].plain[i] + t[u])
      /\ values[x].moved[i] = Wrap(values[u].moved[i] + t[u])
  BY <1>5 DEF OffsetsExact
<1>8. ASSUME NEW p \in Int
      PROVE  Wrap(Wrap(p + t[u]) + c) = Wrap(p + table[u])
  <2>1. p + t[u] \in Int /\ (p + t[u]) + c = p + table[u]
    BY <1>5
  <2> QED BY <2>1, WrapAgain
<1> QED BY <1>6, <1>7, <1>8

LEMMA AddTable ==
  ASSUME ValuesOK, OffsetsExact, NEW a \in Values, NEW b \in Values
  PROVE  TableExact("add", a, b, AddOffset(a, b))
<1>1. \A v \in {a, b} : WellFormed(values[v], v)
  BY DEF ValuesOK
<1>2. /\ values[a].constant \in Int /\ values[b].constant \in Int
      /\ \A i \in Iterations : /\ values[a].plain[i] \in Int /\ values[a].moved[i] \in Int
                               /\ values[b].plain[i] \in Int /\ values[b].moved[i] \in Int
  BY <1>1, TaskAssumption DEF WellFormed, Results, Word
<1>3. \A p, q : Result("add", p, q) = Wrap(p + q)
  BY DEF Result
<1>4. CASE IsConstant(b)
  <2>1. \A i \in Iterations : /\ values[b].plain[i] = values[b].constant
                              /\ values[b].moved[i] = values[b].constant
    BY <1>1, <1>4 DEF WellFormed, IsConstant
  <2>2. TableExact("add", a, b, checkedAdd(a, values[b].constant))
    BY <1>2, <1>3, <2>1, ShiftedTable
  <2> QED BY <1>4, <2>2 DEF AddOffset
<1>5. CASE ~IsConstant(b) /\ IsConstant(a)
  <2>1. \A i \in Iterations : /\ values[a].plain[i] = values[a].constant
                              /\ values[a].moved[i] = values[a].constant
    BY <1>1, <1>5 DEF WellFormed, IsConstant
  <2>2. \A p, q \in Int : p + q = q + p
    OBVIOUS
  <2>3. TableExact("add", a, b, checkedAdd(b, values[a].constant))
    BY <1>2, <1>3, <2>1, <2>2, ShiftedTable
  <2> QED BY <1>5, <2>3 DEF AddOffset
<1>6. CASE ~IsConstant(b) /\ ~IsConstant(a)
  BY <1>6, EmptyTable DEF AddOffset
<1> QED BY <1>4, <1>5, <1>6

LEMMA SubTable ==
  ASSUME ValuesOK, OffsetsExact, NEW a \in Values, NEW b \in Values
  PROVE  TableExact("sub", a, b, SubOffset(a, b))
<1>1. \A v \in {a, b} : WellFormed(values[v], v)
  BY DEF ValuesOK
<1>2. /\ values[b].constant \in Int /\ -values[b].constant \in Int
      /\ \A i \in Iterations : /\ values[a].plain[i] \in Int /\ values[a].moved[i] \in Int
                               /\ values[b].plain[i] \in Int /\ values[b].moved[i] \in Int
  BY <1>1, TaskAssumption DEF WellFormed, Results, Word
<1>3. \A p, q : Result("sub", p, q) = Wrap(p - q)
  BY DEF Result
<1>4. CASE IsConstant(b)
  <2>1. \A i \in Iterations : /\ values[b].plain[i] = values[b].constant
                              /\ values[b].moved[i] = values[b].constant
    BY <1>1, <1>4 DEF WellFormed, IsConstant
  <2>2. \A p, q \in Int : p - q = p + (-q)
    OBVIOUS
  <2>3. TableExact("sub", a, b, checkedAdd(a, -values[b].constant))
    BY <1>2, <1>3, <2>1, <2>2, ShiftedTable
  <2> QED BY <1>4, <2>3 DEF SubOffset
<1>5. CASE ~IsConstant(b)
  BY <1>5, EmptyTable DEF SubOffset
<1> QED BY <1>4, <1>5

-----------------------------------------------------------------------------
(* The invariant is inductive.                                             *)

LEMMA InitInvariant == Init => IInv
<1> SUFFICES ASSUME Init PROVE IInv
  OBVIOUS
<1> DEFINE w == InductionVariable
<1>1. /\ values = <<w>> /\ accesses = {} /\ Len(values) = 1 /\ Values = {1} /\ values[IV] = w
      /\ \E S : values \in Seq(S)
  <2>1. <<w>> \in Seq({w})
    OBVIOUS
  <2>2. values = <<w>> /\ accesses = {}
    BY DEF Init
  <2> HIDE DEF w
  <2>3. Len(<<w>>) = 1 /\ DOMAIN <<w>> = {1} /\ <<w>>[1] = w
    OBVIOUS
  <2> QED BY <2>1, <2>2, <2>3 DEF Values, IV
<1>2. /\ w.op = "iv" /\ w.from = {} /\ w.constant = 0
      /\ w.plain = [i \in Iterations |-> i] /\ w.moved = [i \in Iterations |-> i - Start]
      /\ DOMAIN w.offset = {1} /\ w.offset[1] = 0
  BY DEF InductionVariable, IV
<1>3. 0 \in Word /\ \A i \in Iterations : i \in Word /\ i - Start \in Word
  BY TaskAssumption DEF Word, Iterations
<1> HIDE DEF w
<1>4. ValuesOK
  <2>1. w.plain \in Results /\ w.moved \in Results
    BY <1>2, <1>3 DEF Results
  <2>2. WellFormed(w, 1)
    BY <1>2, <1>3, <2>1 DEF WellFormed
  <2>3. values[IV] = InductionVariable
    BY <1>1 DEF w
  <2> QED BY <1>1, <2>2, <2>3 DEF ValuesOK, IV
<1>5. AccessesOK
  BY <1>1 DEF AccessesOK
<1>6. OffsetsExact
  <2>1. \A n \in Word : n + 0 = n /\ Wrap(n) = n
    BY WrapOfWord, TaskAssumption DEF Word
  <2> QED BY <1>1, <1>2, <1>3, <2>1 DEF OffsetsExact, IV
<1>7. Steady
  BY <1>1, <1>2 DEF Steady, Tracked, Derives, IV
<1> QED BY <1>4, <1>5, <1>6, <1>7 DEF IInv

(* An access refers to values that stay what they are.                     *)
LEMMA AccessesKept ==
  ASSUME AccessesOK, Values \subseteq Values', Values \in SUBSET Int, Values' \in SUBSET Int,
         NEW a,
         \/ accesses' = accesses
         \/ /\ accesses' = accesses \cup {a}
            /\ a.mem \in Memrefs
            /\ a.indices \in [1 .. RankOf[a.mem] -> Values]
            /\ a.stored \in Values \cup {Datum}
  PROVE  AccessesOK'
<1> SUFFICES ASSUME NEW x \in accesses'
             PROVE  /\ x.mem \in Memrefs
                    /\ x.indices \in [1 .. RankOf[x.mem] -> Values']
                    /\ x.stored \in Values' \cup {Datum}
  BY DEF AccessesOK
<1>1. /\ x.mem \in Memrefs
      /\ x.indices \in [1 .. RankOf[x.mem] -> Values]
      /\ x.stored \in Values \cup {Datum}
  BY DEF AccessesOK
<1> QED BY <1>1

LEMMA NextInvariant ==
  ASSUME IInv, [Next]_vars
  PROVE  IInv'
<1> USE DEF IInv
<1>0. /\ Len(values) \in Nat /\ Values = 1 .. Len(values) /\ IV \in Values
      /\ Next1 \in Nat /\ Next1 \notin Values /\ Values = 1 .. Next1 - 1
  BY ValueFacts
<1>1. ASSUME NEW w, Define(w), NewValue(w)
      PROVE  /\ ValuesOK' /\ OffsetsExact' /\ Steady'
             /\ Values \subseteq Values' /\ Values \in SUBSET Int /\ Values' \in SUBSET Int
  <2>1. values' = Append(values, w)
    BY <1>1 DEF Define
  <2> QED BY <1>0, <1>1, <2>1, DefineStep, DefinedValues
<1>2. ASSUME NEW w, Define(w), NewValue(w), UNCHANGED accesses
      PROVE  IInv'
  <2>1. AccessesOK'
    BY <1>1, <1>2, AccessesKept
  <2> QED BY <1>1, <1>2, <2>1
<1>3. CASE Constant
  <2>1. PICK c \in Constants : Define(Fixed("constant", {}, c, [i \in Iterations |-> c]))
    BY <1>3 DEF Constant
  <2>2. c \in Word
    BY TaskAssumption
  <2>3. [i \in Iterations |-> c] \in Results
    BY <2>2 DEF Results
  <2>4. NewValue(Fixed("constant", {}, c, [i \in Iterations |-> c]))
    BY <2>2, <2>3, FixedValue
  <2> QED BY <1>2, <1>3, <2>1, <2>4 DEF Constant
<1>4. CASE Unknown
  <2>1. PICK f \in Unknowns : Define(Fixed("unknown", {}, 0, f))
    BY <1>4 DEF Unknown
  <2>2. f \in Results /\ 0 \in Word
    BY TaskAssumption DEF Results, Word
  <2>3. NewValue(Fixed("unknown", {}, 0, f))
    BY <2>2, FixedValue
  <2> QED BY <1>2, <1>4, <2>1, <2>3 DEF Unknown
<1>5. CASE AddI
  <2>1. PICK a \in Values, b \in Values : Define(Computed("add", a, b, AddOffset(a, b)))
    BY <1>5 DEF AddI
  <2>2. NewValue(Computed("add", a, b, AddOffset(a, b)))
    BY AddTable, ComputedValue
  <2> QED BY <1>2, <1>5, <2>1, <2>2 DEF AddI
<1>6. CASE SubI
  <2>1. PICK a \in Values, b \in Values : Define(Computed("sub", a, b, SubOffset(a, b)))
    BY <1>6 DEF SubI
  <2>2. NewValue(Computed("sub", a, b, SubOffset(a, b)))
    BY SubTable, ComputedValue
  <2> QED BY <1>2, <1>6, <2>1, <2>2 DEF SubI
<1>7. CASE Other
  <2>1. PICK a \in Values, b \in Values : Define(Computed("other", a, b, Fails))
    BY <1>7 DEF Other
  <2>2. NewValue(Computed("other", a, b, Fails))
    BY EmptyTable, ComputedValue
  <2> QED BY <1>2, <1>7, <2>1, <2>2 DEF Other
<1>8. CASE Load
  <2>0. PICK m \in Memrefs : \E indices \in [1 .. RankOf[m] -> Values] :
          /\ accesses' = accesses \cup {[mem |-> m, store |-> FALSE, indices |-> indices, stored |-> Datum]}
          /\ \E f \in Unknowns : Define(Fixed("load", {indices[d] : d \in DOMAIN indices}, 0, f))
    BY <1>8 DEF Load
  <2>1. PICK indices \in [1 .. RankOf[m] -> Values] :
          /\ accesses' = accesses \cup {[mem |-> m, store |-> FALSE, indices |-> indices, stored |-> Datum]}
          /\ \E f \in Unknowns : Define(Fixed("load", {indices[d] : d \in DOMAIN indices}, 0, f))
    BY <2>0
  <2>2. PICK f \in Unknowns : Define(Fixed("load", {indices[d] : d \in DOMAIN indices}, 0, f))
    BY <2>1
  <2>3. f \in Results /\ 0 \in Word /\ {indices[d] : d \in DOMAIN indices} \in SUBSET Values
    BY TaskAssumption DEF Results, Word
  <2>4. NewValue(Fixed("load", {indices[d] : d \in DOMAIN indices}, 0, f))
    BY <2>3, FixedValue
  <2>5. ValuesOK' /\ OffsetsExact' /\ Steady' /\ Values \subseteq Values'
        /\ Values \in SUBSET Int /\ Values' \in SUBSET Int
    BY <1>1, <2>2, <2>4
  <2>6. AccessesOK'
    <3> DEFINE e == [mem |-> m, store |-> FALSE, indices |-> indices, stored |-> Datum]
    <3>1. e.mem = m /\ e.indices = indices /\ e.stored = Datum /\ accesses' = accesses \cup {e}
      BY <2>1
    <3> HIDE DEF e
    <3>2. /\ e.mem \in Memrefs /\ e.indices \in [1 .. RankOf[e.mem] -> Values]
          /\ e.stored \in Values \cup {Datum}
      BY <3>1
    <3>3. AccessesOK
      OBVIOUS
    <3> QED BY <2>5, <3>1, <3>2, <3>3, AccessesKept
  <2> QED BY <2>5, <2>6
<1>9. CASE Store
  <2>0. PICK m \in Memrefs : \E indices \in [1 .. RankOf[m] -> Values], v \in Values \cup {Datum} :
          /\ accesses' = accesses \cup {[mem |-> m, store |-> TRUE, indices |-> indices, stored |-> v]}
          /\ UNCHANGED <<values, isStencil>>
    BY <1>9 DEF Store
  <2>1. PICK indices \in [1 .. RankOf[m] -> Values], v \in Values \cup {Datum} :
          /\ accesses' = accesses \cup {[mem |-> m, store |-> TRUE, indices |-> indices, stored |-> v]}
          /\ UNCHANGED <<values, isStencil>>
    BY <2>0
  <2>2. Values' = Values /\ Values \in SUBSET Int
    BY <1>0, <2>1 DEF Values
  <2>3. AccessesOK'
    <3> DEFINE e == [mem |-> m, store |-> TRUE, indices |-> indices, stored |-> v]
    <3>1. e.mem = m /\ e.indices = indices /\ e.stored = v /\ accesses' = accesses \cup {e}
      BY <2>1
    <3> HIDE DEF e
    <3>2. /\ e.mem \in Memrefs /\ e.indices \in [1 .. RankOf[e.mem] -> Values]
          /\ e.stored \in Values \cup {Datum}
      BY <3>1
    <3>3. AccessesOK
      OBVIOUS
    <3> QED BY <2>2, <3>1, <3>2, <3>3, AccessesKept
  <2> QED BY <2>1, <2>3 DEF ValuesOK, OffsetsExact, Steady, UsersSupported, Tracked, Users, Derives, Values
<1>10. CASE UNCHANGED vars
  BY <1>10 DEF vars, ValuesOK, AccessesOK, OffsetsExact, Steady, UsersSupported, Tracked, Users, Derives, Values
<1> QED BY <1>3, <1>4, <1>5, <1>6, <1>7, <1>8, <1>9, <1>10 DEF Next

-----------------------------------------------------------------------------
(* What the invariant gives.                                               *)

(* A tracked value is the iteration plus its offset, wherever it starts.   *)
LEMMA TrackedValue ==
  ASSUME IInv, NEW v \in Tracked, NEW i \in Iterations
  PROVE  /\ v \in Values /\ values[v].offset[IV] \in Int
         /\ values[v].plain[i] = Wrap(i + values[v].offset[IV])
         /\ values[v].moved[i] = Wrap((i - Start) + values[v].offset[IV])
<1>1. v \in Values /\ IV \in DOMAIN values[v].offset
  BY DEF Tracked, Derives
<1>2. WellFormed(values[v], v)
  BY <1>1 DEF IInv, ValuesOK
<1>3. values[v].offset[IV] \in Int
  BY <1>1, <1>2, TaskAssumption DEF WellFormed, Word
<1>4. values[IV].plain[i] = i /\ values[IV].moved[i] = i - Start
  BY DEF IInv, ValuesOK, InductionVariable
<1> QED BY <1>1, <1>3, <1>4 DEF IInv, OffsetsExact

LEMMA PlainInWord ==
  ASSUME IInv, NEW v \in Values, NEW i \in Iterations
  PROVE  values[v].plain[i] \in Word /\ values[v].moved[i] \in Word
<1>1. WellFormed(values[v], v)
  BY DEF IInv, ValuesOK
<1> QED BY <1>1 DEF WellFormed, Results

(* The index of a row access is the iteration.                             *)
LEMMA OwnRowIndex ==
  ASSUME IInv, NEW a, OwnRow(a), a.indices[1] \in Values, NEW i \in Iterations
  PROVE  /\ 1 \in DOMAIN a.indices /\ a.indices[1] \in Tracked
         /\ values[a.indices[1]].plain[i] = i
         /\ values[a.indices[1]].moved[i] = i - Start
<1> DEFINE v == a.indices[1]
<1>1. 1 \in DOMAIN a.indices /\ v \in Tracked /\ values[v].offset[IV] = 0
  BY DEF OwnRow, UnitStride, Tracked
<1>2. i \in Word /\ i - Start \in Word /\ i \in Int /\ i - Start \in Int
  BY TaskAssumption DEF Word, Iterations
<1>3. i + 0 = i /\ (i - Start) + 0 = i - Start
  BY <1>2
<1>4. values[v].plain[i] = Wrap(i) /\ values[v].moved[i] = Wrap(i - Start)
  BY <1>1, <1>3, TrackedValue
<1> QED BY <1>1, <1>2, <1>4, WrapOfWord

LEMMA SlicedAccess ==
  ASSUME IInv, NEW a \in accesses, Sliced(a.mem), NEW i \in Iterations
  PROVE  /\ indicesRebased /\ a.mem \notin unslicedIVMemrefs
         /\ UnitStride(a, IV, 1) /\ 1 \in DOMAIN a.indices
         /\ values[a.indices[1]].plain[i] = i
         /\ TaskIndex(a, 1, i) = i - Start
<1>1. indicesRebased /\ a.mem \notin unslicedIVMemrefs
  BY DEF indicesRebased, Sliced, unslicedIVMemrefs, IInv, AccessesOK
<1>2. OwnRow(a)
  BY DEF Sliced, RowPartition, AccessesTo
<1>3. 1 \in DOMAIN a.indices /\ UnitStride(a, IV, 1)
  BY <1>2 DEF OwnRow, UnitStride
<1>4. a.indices[1] \in Values
  BY <1>3 DEF IInv, AccessesOK
<1>5. values[a.indices[1]].plain[i] = i /\ values[a.indices[1]].moved[i] = i - Start
  BY <1>2, <1>4, OwnRowIndex
<1>6. ~Rebased(a, 1)
  BY <1>1 DEF Rebased
<1>7. i - Start \in Word /\ (i - Start) + 0 = i - Start
  BY TaskAssumption DEF Word, Iterations
<1>8. TaskIndex(a, 1, i) = Wrap((i - Start) + 0)
  BY <1>1, <1>5, <1>6 DEF TaskIndex, Iterate
<1> QED BY <1>1, <1>3, <1>5, <1>7, <1>8, WrapOfWord

LEMMA InvariantInsideSlab == IInv => InsideSlab
<1> SUFFICES ASSUME IInv, NEW a \in accesses, Sliced(a.mem), NEW i \in Iterations
             PROVE  TaskIndex(a, 1, i) \in 0 .. Chunk - 1
  BY DEF InsideSlab
<1>1. i - Start \in 0 .. Chunk - 1
  BY TaskAssumption DEF Iterations
<1> QED BY <1>1, SlicedAccess

(* An index the lowering moves is put back.                                *)
LEMMA RebasedIndex ==
  ASSUME IInv, NEW a, NEW d, a.indices[d] \in Tracked, NEW i \in Iterations,
         indicesRebased, Rebased(a, d)
  PROVE  TaskIndex(a, d, i) = values[a.indices[d]].plain[i]
<1> DEFINE v == a.indices[d]
           c == values[v].offset[IV]
<1>1. /\ c \in Int
      /\ values[v].plain[i] = Wrap(i + c)
      /\ values[v].moved[i] = Wrap((i - Start) + c)
  BY TrackedValue
<1>2. i \in Int /\ Start \in Int
  BY TaskAssumption DEF Iterations
<1>3. TaskIndex(a, d, i) = Wrap(Wrap((i - Start) + c) + Start)
  BY <1>1 DEF TaskIndex, Iterate
<1> HIDE DEF c
<1>4. (i - Start) + c \in Int /\ ((i - Start) + c) + Start = i + c
  BY <1>1, <1>2
<1> QED BY <1>1, <1>2, <1>3, <1>4, WrapAgain

(* An index that is neither moved nor put back is what it was.             *)
LEMMA KeptIndex ==
  ASSUME IInv, NEW a, NEW d, a.indices[d] \in Values, NEW i \in Iterations,
         Iterate(a.indices[d], i) = values[a.indices[d]].plain[i], ~Rebased(a, d)
  PROVE  TaskIndex(a, d, i) = values[a.indices[d]].plain[i]
<1> DEFINE n == values[a.indices[d]].plain[i]
<1>1. n \in Word
  BY PlainInWord
<1>2. TaskIndex(a, d, i) = Wrap(n + 0)
  BY DEF TaskIndex
<1> HIDE DEF n
<1>3. n + 0 = n
  BY <1>1, TaskAssumption DEF Word
<1> QED BY <1>1, <1>2, <1>3, WrapOfWord DEF n

(* When slicing is on, only tracked values depend on the induction variable.*)
LEMMA SlicingIsSafe ==
  ASSUME IInv, indicesRebased
  PROVE  supportedIVUse /\ \A v \in Values \ Tracked : values[v].plain = values[v].moved
<1>1. supportedIVUse
  BY DEF indicesRebased, Sliced
<1>2. UsersSupported
  BY <1>1 DEF supportedIVUse, UsersSupported
<1> QED BY <1>1, <1>2 DEF IInv, Steady

LEMMA SameIndex ==
  ASSUME IInv, Regular, NEW a \in accesses, NEW d \in DOMAIN a.indices, NEW i \in Iterations,
         ~(Sliced(a.mem) /\ d = 1)
  PROVE  TaskIndex(a, d, i) = values[a.indices[d]].plain[i]
<1> DEFINE v == a.indices[d]
<1>1. v \in Values /\ a.mem \in Memrefs
  BY DEF IInv, AccessesOK
<1>2. CASE ~indicesRebased
  <2>1. Iterate(v, i) = values[v].plain[i] /\ ~Rebased(a, d)
    BY <1>2 DEF Iterate, Rebased
  <2> QED BY <1>1, <2>1, KeptIndex
<1>3. CASE indicesRebased /\ v \notin Tracked
  <2>1. values[v].plain = values[v].moved
    BY <1>1, <1>3, SlicingIsSafe
  <2>2. Iterate(v, i) = values[v].plain[i]
    BY <2>1 DEF Iterate
  <2>3. ~Rebased(a, d)
    BY <1>1, <1>3 DEF Rebased, UnitStride, Tracked
  <2> QED BY <1>1, <2>2, <2>3, KeptIndex
<1>4. CASE indicesRebased /\ v \in Tracked
  <2>1. supportedIVUse
    BY <1>4, SlicingIsSafe
  <2>2. \A e \in DOMAIN a.indices : a.indices[e] \in Tracked => e = d
    BY <1>4 DEF Regular
  <2>3. \A e \in DOMAIN a.indices : a.indices[e] \in Values
    BY DEF IInv, AccessesOK
  <2>4. UnitStride(a, IV, d)
    BY <1>4, <2>2, <2>3 DEF UnitStride, Tracked
  <2>5. UsesIV(a)
    BY <1>4 DEF Regular, UsesIV
  <2>6. ~RowPartition(a.mem)
    <3> SUFFICES ASSUME RowPartition(a.mem) PROVE FALSE
      OBVIOUS
    <3>1. UnitStride(a, IV, 1)
      BY DEF RowPartition, AccessesTo, OwnRow
    <3>2. d = 1
      BY <2>4, <3>1 DEF UnitStride
    <3>3. Sliced(a.mem)
      BY <1>4 DEF indicesRebased, Sliced
    <3> QED BY <3>2, <3>3
  <2>7. a.mem \in unslicedIVMemrefs
    BY <1>1, <2>1, <2>5, <2>6 DEF unslicedIVMemrefs, AccessesTo
  <2>8. Rebased(a, d)
    BY <1>4, <2>4, <2>7 DEF Rebased
  <2> QED BY <1>4, <2>8, RebasedIndex
<1> QED BY <1>2, <1>3, <1>4

LEMMA RegularSameCells ==
  ASSUME IInv, Regular
  PROVE  SameCells
<1> SUFFICES ASSUME NEW a \in accesses, NEW i \in Iterations
             PROVE  TaskCell(a, i) = SourceCell(a, i)
  BY DEF SameCells
<1>1. ASSUME NEW d \in DOMAIN a.indices
      PROVE  (IF Sliced(a.mem) /\ d = 1 THEN Start + TaskIndex(a, d, i) ELSE TaskIndex(a, d, i))
             = values[a.indices[d]].plain[i]
  <2>1. CASE Sliced(a.mem) /\ d = 1
    <3>1. TaskIndex(a, 1, i) = i - Start /\ values[a.indices[1]].plain[i] = i
      BY <2>1, SlicedAccess
    <3>2. Start + (i - Start) = i
      BY TaskAssumption DEF Iterations
    <3> QED BY <2>1, <3>1, <3>2
  <2>2. CASE ~(Sliced(a.mem) /\ d = 1)
    BY <2>2, SameIndex
  <2> QED BY <2>1, <2>2
<1> QED BY <1>1 DEF TaskCell, SourceCell

LEMMA RegularSameData ==
  ASSUME IInv, Regular
  PROVE  SameData
<1> SUFFICES ASSUME NEW a \in accesses, NEW i \in Iterations, a.stored # Datum
             PROVE  Iterate(a.stored, i) = values[a.stored].plain[i]
  BY DEF SameData
<1>1. a.stored \in Values
  BY DEF IInv, AccessesOK
<1>2. CASE ~indicesRebased
  BY <1>2 DEF Iterate
<1>3. CASE indicesRebased
  <2>1. a.stored \notin Tracked
    BY <1>3, SlicingIsSafe DEF Regular, supportedIVUse, SupportedAccess
  <2>2. values[a.stored].plain = values[a.stored].moved
    BY <1>1, <1>3, <2>1, SlicingIsSafe
  <2> QED BY <2>2 DEF Iterate
<1> QED BY <1>2, <1>3

-----------------------------------------------------------------------------

(* What is known of every body.                                            *)
THEOREM Invariant == Spec => []IInv
BY InitInvariant, NextInvariant, PTL DEF Spec

(* The offsets the walk over index expressions finds are exact, for every  *)
(* width of an index.                                                      *)
THEOREM OffsetsAreExact == Spec => []OffsetsExact
<1>1. IInv => OffsetsExact
  BY DEF IInv
<1> QED BY <1>1, Invariant, PTL

(* A task stays inside the row slabs its operands are cut down to.         *)
THEOREM TasksStayInside == Spec => []InsideSlab
BY InvariantInsideSlab, Invariant, PTL

(* A task of a regular body does its shard of the source's work.           *)
THEOREM TasksDoTheirIterations == Spec => []TaskDoesItsIterations
<1>1. IInv => TaskDoesItsIterations
  BY RegularSameCells, RegularSameData DEF TaskDoesItsIterations
<1> QED BY <1>1, Invariant, PTL
=============================================================================
