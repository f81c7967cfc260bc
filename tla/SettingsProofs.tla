--------------------------- MODULE SettingsProofs ---------------------------
(***************************************************************************)
(* Proofs about Settings for every trim, default, calibration and bound,   *)
(* and so for every value of every byte.                                   *)
(***************************************************************************)
EXTENDS Settings, FiniteSetTheorems, TLAPS

\* A write of a block has given each cell it has left behind the value in RAM, which
\* carries its checksum; the cells of conf ahead of it are those before the write.
Writing ==
    task = "write" =>
        /\ Passes(ram[block])
        /\ \A c \in Cells[block] \ ToSet(todo) : eeprom[block][c] = ram[block][c]
        /\ block = "conf" =>
               \A c \in Cells["conf"] : eeprom["conf"][c] \in {before[c], ram["conf"][c]}

\* Which blocks in the EEPROM are those in RAM, whole: but for the one being written, all
\* that nothing has changed since.
Saved ==
    task # "off" =>
        \A b \in Blocks \ unsaved :
            ~(task = "write" /\ b = block) => Passes(eeprom[b]) /\ eeprom[b] = ram[b]

IInv == TypeOK /\ Writing /\ Saved

ConfCells == {"gain", "expo", "trimLow", "trimHigh", "box", "sum"}
GlobalCells == {"accLow", "accHigh", "sum"}

-----------------------------------------------------------------------------
(* The layout of the blocks, and walking along it.                           *)

LEMMA BlocksAre == Blocks = {"conf", "global"}
BY DEF Blocks, Layout

LEMMA CellsAre == Cells["conf"] = ConfCells /\ Cells["global"] = GlobalCells
<1>1. Cells["conf"] = ToSet(<<"gain", "expo", "trimLow", "trimHigh", "box", "sum">>)
    BY BlocksAre DEF Cells, Layout
<1>2. Cells["global"] = ToSet(<<"accLow", "accHigh", "sum">>)
    BY BlocksAre DEF Cells, Layout
<1>3. DOMAIN <<"gain", "expo", "trimLow", "trimHigh", "box", "sum">> = 1 .. 6
    OBVIOUS
<1>4. DOMAIN <<"accLow", "accHigh", "sum">> = 1 .. 3
    OBVIOUS
<1> QED
    BY <1>1, <1>2, <1>3, <1>4 DEF ToSet, ConfCells, GlobalCells

\* In either direction the cells of a block are all of them written.
LEMMA WholeBlock ==
    ASSUME NEW b \in Blocks, NEW s \in {Layout[b], Reverse(Layout[b])}
    PROVE  /\ s \in Seq(Cells[b]) /\ s # <<>>
           /\ Len(s) = Len(Layout[b])
           /\ ToSet(s) = Cells[b]
<1> DEFINE L == Layout[b]
<1>1. L \in Seq(Cells[b]) /\ Len(L) \in Nat \ {0} /\ ToSet(L) = Cells[b]
  <2>1. CASE b = "conf"
      BY <2>1, CellsAre, BlocksAre DEF Layout, ConfCells, Cells
  <2>2. CASE b = "global"
      BY <2>2, CellsAre, BlocksAre DEF Layout, GlobalCells, Cells
  <2> QED
      BY <2>1, <2>2, BlocksAre
<1> HIDE DEF L
<1>2. CASE s = L
    BY <1>1, <1>2 DEF L
<1>3. CASE s = Reverse(L)
  <2>1. s = [i \in 1 .. Len(L) |-> L[(Len(L) - i) + 1]]
      BY <1>3 DEF Reverse
  <2>2. \A i \in 1 .. Len(L) : (Len(L) - i) + 1 \in 1 .. Len(L) /\ s[i] \in Cells[b]
      BY <1>1, <2>1
  <2>3. s \in Seq(Cells[b]) /\ Len(s) = Len(L) /\ s # <<>>
      BY <1>1, <2>1, <2>2
  <2>4. \A i \in 1 .. Len(L) : s[(Len(L) - i) + 1] = L[i]
      BY <1>1, <2>1
  <2>5. DOMAIN s = 1 .. Len(L) /\ DOMAIN L = 1 .. Len(L)
      BY <1>1, <2>1
  <2>6. ToSet(s) \subseteq ToSet(L)
    <3>1. \A i \in 1 .. Len(L) : s[i] \in ToSet(L)
        BY <2>1, <2>2, <2>5 DEF ToSet
    <3> QED
        BY <2>5, <3>1 DEF ToSet
  <2>7. ToSet(L) \subseteq ToSet(s)
    <3>1. \A i \in 1 .. Len(L) : L[i] \in ToSet(s)
        BY <2>2, <2>4, <2>5 DEF ToSet
    <3> QED
        BY <2>5, <3>1 DEF ToSet
  <2> QED
      BY <1>1, <2>3, <2>6, <2>7 DEF L
<1> QED
    BY <1>2, <1>3 DEF L

LEMMA OneCellLess ==
    ASSUME NEW S, NEW s \in Seq(S), s # <<>>
    PROVE  /\ Head(s) \in S /\ Tail(s) \in Seq(S) /\ Len(Tail(s)) = Len(s) - 1
           /\ ToSet(s) \subseteq {Head(s)} \cup ToSet(Tail(s))
<1>1. Head(s) \in S /\ Tail(s) \in Seq(S) /\ Len(Tail(s)) = Len(s) - 1
    OBVIOUS
<1>2. DOMAIN s = 1 .. Len(s) /\ DOMAIN Tail(s) = 1 .. Len(s) - 1
    BY <1>1
<1>3. ASSUME NEW i \in 1 .. Len(s) PROVE s[i] \in {Head(s)} \cup ToSet(Tail(s))
  <2>1. CASE i = 1
      BY <2>1
  <2>2. CASE i # 1
    <3>1. i - 1 \in 1 .. Len(s) - 1 /\ Tail(s)[i - 1] = s[i]
        BY <2>2
    <3> QED
        BY <1>2, <3>1 DEF ToSet
  <2> QED
      BY <2>1, <2>2
<1> QED
    BY <1>1, <1>2, <1>3 DEF ToSet

-----------------------------------------------------------------------------
(* Bytes, words and sums.                                                    *)

LEMMA WordOfBytes ==
    ASSUME NEW n \in Int
    PROVE  Low(n) \in Byte /\ High(n) \in Byte
BY DEF Low, High, Byte

LEMMA NoughtInBoth ==
    ASSUME NEW low \in 0 .. 255, NEW high \in 0 .. 255, Word(low, high) = 0
    PROVE  low = 0 /\ high = 0
<1>1. CASE high < 128
    BY <1>1 DEF Word
<1>2. CASE ~(high < 128)
    BY <1>2 DEF Word
<1> QED
    BY <1>1, <1>2

LEMMA SameRemainder ==
    ASSUME NEW m \in Int, NEW n \in Int, m % 256 = n % 256, m - n \in -255 .. 255
    PROVE  m = n
OBVIOUS

\* The trim that is nought is nought in both its bytes.
LEMMA NoTrim ==
    ASSUME NEW conf \in Confs, Trim(conf) = 0
    PROVE  WithTrim(conf, 0) = conf
<1>1. conf["trimLow"] \in Byte /\ conf["trimHigh"] \in Byte
    BY CellsAre DEF Confs, ConfCells
<1>2. conf["trimLow"] = 0 /\ conf["trimHigh"] = 0
    BY <1>1, NoughtInBoth DEF Trim, Byte
<1>3. Low(0) = 0 /\ High(0) = 0
    BY DEF Low, High
<1> QED
    BY <1>2, <1>3 DEF WithTrim, Confs

LEMMA NotBoth == Confs \cap Globals = {}
<1> SUFFICES ASSUME NEW f \in Confs, f \in Globals PROVE FALSE
    OBVIOUS
<1> QED
    BY CellsAre DEF Confs, Globals, ConfCells, GlobalCells

LEMMA SumIsByte ==
    ASSUME NEW data \in Confs \cup Globals
    PROVE  calculate_sum(data) \in Byte
<1>1. CASE data \in Confs
  <2>1. Bytes(data) \in Int
    <3>1. \A c \in ConfCells : data[c] \in Int
        BY <1>1, CellsAre DEF Confs, Byte
    <3> QED
        BY <1>1, <3>1 DEF Bytes, ConfCells
  <2> QED
      BY <2>1 DEF calculate_sum, Byte
<1>2. CASE data \in Globals
  <2>1. Bytes(data) \in Int
    <3>1. \A c \in GlobalCells : data[c] \in Int
        BY <1>2, CellsAre DEF Globals, Byte
    <3> QED
        BY <1>2, <3>1, NotBoth DEF Bytes, GlobalCells
  <2> QED
      BY <2>1 DEF calculate_sum, Byte
<1> QED
    BY <1>1, <1>2

\* A sealed block passes: its sum does not count the checksum.
LEMMA SealedPasses ==
    ASSUME NEW Kind \in {Confs, Globals}, NEW data \in Kind
    PROVE  Sealed(data) \in Kind /\ Passes(Sealed(data))
<1>1. CASE Kind = Confs
  <2>1. calculate_sum(data) \in Byte
      BY <1>1, SumIsByte
  <2>2. Sealed(data) \in Confs /\ Sealed(data)["sum"] = calculate_sum(data)
      BY <1>1, <2>1, CellsAre DEF Sealed, Confs, ConfCells
  <2>3. \A c \in ConfCells \ {"sum"} : Sealed(data)[c] = data[c]
      BY <1>1, CellsAre DEF Sealed, Confs
  <2>4. Bytes(Sealed(data)) = Bytes(data)
      BY <1>1, <2>2, <2>3 DEF Bytes, ConfCells
  <2> QED
      BY <1>1, <2>2, <2>4 DEF Passes, calculate_sum
<1>2. CASE Kind = Globals
  <2>1. calculate_sum(data) \in Byte
      BY <1>2, SumIsByte
  <2>2. Sealed(data) \in Globals /\ Sealed(data)["sum"] = calculate_sum(data)
      BY <1>2, <2>1, CellsAre DEF Sealed, Globals, GlobalCells
  <2>3. \A c \in GlobalCells \ {"sum"} : Sealed(data)[c] = data[c]
      BY <1>2, CellsAre DEF Sealed, Globals
  <2>4. Bytes(Sealed(data)) = Bytes(data)
      BY <1>2, <2>2, <2>3, NotBoth DEF Bytes, GlobalCells
  <2> QED
      BY <1>2, <2>2, <2>4 DEF Passes, calculate_sum
<1> QED
    BY <1>1, <1>2

-----------------------------------------------------------------------------
(* What the checksum secures.                                                *)

\* It tells apart two settings that differ in one byte.
LEMMA OneByteTold ==
    ASSUME NEW p \in Confs, NEW q \in Confs, Passes(p), Passes(q), p["sum"] = q["sum"],
           NEW c \in ConfCells, \A d \in ConfCells \ {c, "sum"} : p[d] = q[d]
    PROVE  p = q
<1>1. \A d \in ConfCells : p[d] \in Byte /\ q[d] \in Byte
    BY CellsAre DEF Confs
<1> DEFINE diff == IF c = "sum" THEN 0 ELSE p[c] - q[c]
<1>2. diff \in -255 .. 255
  <2>1. p[c] \in 0 .. 255 /\ q[c] \in 0 .. 255
      BY <1>1 DEF Byte
  <2>2. \A m, n \in 0 .. 255 : m - n \in -255 .. 255
      OBVIOUS
  <2>3. p[c] - q[c] \in -255 .. 255
      BY <2>1, <2>2
  <2>4. CASE c = "sum"
    <3>1. diff = 0 /\ 0 \in -255 .. 255
        BY <2>4
    <3> QED
        BY <3>1
  <2>5. CASE c # "sum"
    <3>1. diff = p[c] - q[c]
        BY <2>5
    <3> QED
        BY <2>3, <3>1
  <2> QED
      BY <2>4, <2>5
<1>3. Bytes(p) \in Int /\ Bytes(q) \in Int /\ Bytes(p) = Bytes(q) + diff
  <2>1. Bytes(p) = p["gain"] + p["expo"] + p["trimLow"] + p["trimHigh"] + p["box"]
      BY DEF Bytes
  <2>2. Bytes(q) = q["gain"] + q["expo"] + q["trimLow"] + q["trimHigh"] + q["box"]
      BY DEF Bytes
  <2>3. \A d \in ConfCells : p[d] \in Int /\ q[d] \in Int
      BY <1>1 DEF Byte
  <2>4. CASE c = "sum"
      BY <2>1, <2>2, <2>3, <2>4 DEF ConfCells
  <2>5. CASE c = "gain"
      BY <2>1, <2>2, <2>3, <2>5 DEF ConfCells
  <2>6. CASE c = "expo"
      BY <2>1, <2>2, <2>3, <2>6 DEF ConfCells
  <2>7. CASE c = "trimLow"
      BY <2>1, <2>2, <2>3, <2>7 DEF ConfCells
  <2>8. CASE c = "trimHigh"
      BY <2>1, <2>2, <2>3, <2>8 DEF ConfCells
  <2>9. CASE c = "box"
      BY <2>1, <2>2, <2>3, <2>9 DEF ConfCells
  <2> QED
      BY <2>4, <2>5, <2>6, <2>7, <2>8, <2>9 DEF ConfCells
<1>4. (85 + Bytes(p)) % 256 = (85 + Bytes(q)) % 256
    BY DEF Passes, calculate_sum
<1>5. diff = 0
  <2> HIDE DEF diff
  <2>1. 85 + Bytes(p) = 85 + Bytes(q)
    <3> DEFINE m == 85 + Bytes(p)
               n == 85 + Bytes(q)
    <3>1. m \in Int /\ n \in Int /\ m % 256 = n % 256
        BY <1>3, <1>4
    <3>2. m - n \in -255 .. 255
        BY <1>2, <1>3
    <3> HIDE DEF m, n
    <3>3. m = n
        BY <3>1, <3>2, SameRemainder
    <3> QED
        BY <3>3 DEF m, n
  <2>2. diff \in Int
      BY <1>2
  <2> QED
      BY <1>3, <2>1, <2>2
<1>6. p[c] = q[c]
  <2>1. p[c] \in Int /\ q[c] \in Int
      BY <1>1 DEF Byte
  <2> QED
      BY <1>5, <2>1
<1>7. \A d \in ConfCells : p[d] = q[d]
    BY <1>6
<1> QED
    BY <1>7, CellsAre DEF Confs

\* It tells apart from either a mix of two settings that differ in two bytes at most:
\* one with the checksum of the one and the bytes of both has a byte of the other.
LEMMA MixTold ==
    ASSUME NEW old \in Confs, NEW new \in Confs, NEW mix \in Confs,
           Passes(old), Passes(new), Passes(mix),
           \A c \in ConfCells : mix[c] \in {old[c], new[c]},
           NEW a, NEW b,
           \A c \in ConfCells \ {a, b, "sum"} : old[c] = new[c]
    PROVE  mix \in {old, new}
<1>1. ASSUME NEW one \in {old, new}, NEW other \in {old, new}, {one, other} = {old, new},
             mix["sum"] = one["sum"]
      PROVE  mix \in {one, other}
  <2>1. CASE \E c \in ConfCells : \A d \in ConfCells \ {c, "sum"} : mix[d] = one[d]
      BY <1>1, <2>1, OneByteTold
  <2>2. CASE \A c \in ConfCells : \E d \in ConfCells \ {c, "sum"} : mix[d] # one[d]
    <3>1. PICK c \in ConfCells \ {"sum"} : mix[c] # one[c]
        BY <2>2 DEF ConfCells
    <3>2. PICK d \in ConfCells \ {c, "sum"} : mix[d] # one[d]
        BY <2>2
    <3>3. {c, d} = {a, b}
        BY <1>1, <3>1, <3>2
    <3>4. \A e \in ConfCells \ {"sum"} : mix[e] = other[e]
        BY <1>1, <3>1, <3>2, <3>3
    <3>5. Bytes(mix) = Bytes(other)
        BY <1>1, <3>4 DEF Bytes, ConfCells
    <3>6. mix["sum"] = other["sum"]
        BY <1>1, <3>5 DEF Passes, calculate_sum
    <3> QED
        BY <1>1, <3>4, <3>6, CellsAre DEF Confs, ConfCells
  <2> QED
      BY <2>1, <2>2
<1>2. mix["sum"] \in {old["sum"], new["sum"]}
    BY DEF ConfCells
<1> QED
    BY <1>1, <1>2

\* Two bytes at most have changed: they can be named.
LEMMA TwoAtMost ==
    ASSUME NEW S, NEW Few \in SUBSET S, S = ConfCells, Cardinality(Few) <= 2
    PROVE  \E a, b \in S : Few \subseteq {a, b}
<1>1. IsFiniteSet(Few)
  <2>1. IsFiniteSet(ConfCells)
    <3>1. IsFiniteSet({"gain"}) /\ IsFiniteSet({"expo"}) /\ IsFiniteSet({"trimLow"})
          /\ IsFiniteSet({"trimHigh"}) /\ IsFiniteSet({"box"}) /\ IsFiniteSet({"sum"})
        BY FS_Singleton
    <3>2. IsFiniteSet({"gain"} \cup {"expo"}) /\ IsFiniteSet({"trimLow"} \cup {"trimHigh"})
          /\ IsFiniteSet({"box"} \cup {"sum"})
        BY <3>1, FS_Union
    <3>3. IsFiniteSet(({"gain"} \cup {"expo"}) \cup ({"trimLow"} \cup {"trimHigh"}))
        BY <3>2, FS_Union
    <3>4. IsFiniteSet((({"gain"} \cup {"expo"}) \cup ({"trimLow"} \cup {"trimHigh"}))
                          \cup ({"box"} \cup {"sum"}))
        BY <3>2, <3>3, FS_Union
    <3>5. ConfCells = (({"gain"} \cup {"expo"}) \cup ({"trimLow"} \cup {"trimHigh"}))
                          \cup ({"box"} \cup {"sum"})
        BY DEF ConfCells
    <3> QED
        BY <3>4, <3>5
  <2> QED
      BY <2>1, FS_Subset
<1>2. SUFFICES ASSUME NEW a \in Few, NEW b \in Few \ {a}, NEW c \in Few \ {a, b} PROVE FALSE
  <2>1. CASE Few = {}
      BY <2>1 DEF ConfCells
  <2>2. CASE \E a \in Few : Few \ {a} = {}
      BY <2>2
  <2>3. CASE \E a \in Few, b \in Few : b # a /\ Few \ {a, b} = {}
      BY <2>3
  <2> QED
      BY <1>2, <2>1, <2>2, <2>3
<1>3. Cardinality({a, b, c}) = 3
  <2>1. IsFiniteSet({a}) /\ Cardinality({a}) = 1
      BY FS_Singleton
  <2>2. IsFiniteSet({a, b}) /\ Cardinality({a, b}) = 2
    <3>1. IsFiniteSet({a} \cup {b}) /\ Cardinality({a} \cup {b}) = Cardinality({a}) + 1
        BY <2>1, FS_AddElement, b \notin {a}
    <3>2. {a, b} = {a} \cup {b}
        OBVIOUS
    <3> QED
        BY <2>1, <3>1, <3>2
  <2>3. {a, b, c} = {a, b} \cup {c} /\ c \notin {a, b}
      OBVIOUS
  <2> QED
      BY <2>2, <2>3, FS_AddElement
<1>4. Cardinality({a, b, c}) <= Cardinality(Few)
    BY <1>1, FS_Subset
<1>5. Cardinality(Few) \in Nat
    BY <1>1, FS_CardinalityType
<1> QED
    BY <1>3, <1>4, <1>5

-----------------------------------------------------------------------------
(* The invariant.                                                            *)

\* The settings in RAM or in the EEPROM, whatever their checksums.
Settled(m) == DOMAIN m = Blocks /\ m["conf"] \in Confs /\ m["global"] \in Globals

StatusOK ==
    /\ {ARMED, calibratingA, CALIBRATE_MAG} \subseteq BOOLEAN
    /\ failures \in 0 .. MaxFailures

LEMMA ChangesKeepTypes ==
    /\ \A conf \in Confs, trim \in Int : WithTrim(conf, trim) \in Confs
    /\ \A conf \in Confs, other \in {Defaults} \cup Others : WithOther(conf, other) \in Confs
    /\ \A conf \in Confs : WithDefaults(conf) \in Confs
    /\ \A global \in Globals, zero \in Int : WithAcc(global, zero) \in Globals
<1>1. ASSUME NEW conf \in Confs, NEW trim \in Int PROVE WithTrim(conf, trim) \in Confs
    BY CellsAre, WordOfBytes DEF Confs, WithTrim
<1>2. ASSUME NEW conf \in Confs, NEW other \in {Defaults} \cup Others
      PROVE  WithOther(conf, other) \in Confs
  <2>1. \A c \in OtherCells : other[c] \in Byte
      BY OthersAssumption
  <2>2. \A c \in DOMAIN conf : (IF c \in OtherCells THEN other[c] ELSE conf[c]) \in Byte
      BY <2>1 DEF Confs
  <2>3. DOMAIN conf = Cells["conf"]
      BY DEF Confs
  <2> QED
      BY <2>2, <2>3 DEF Confs, WithOther
<1>3. ASSUME NEW conf \in Confs PROVE WithDefaults(conf) \in Confs
    BY <1>1, <1>2 DEF WithDefaults
<1>4. ASSUME NEW global \in Globals, NEW zero \in Int PROVE WithAcc(global, zero) \in Globals
    BY CellsAre, WordOfBytes DEF Globals, WithAcc
<1> QED
    BY <1>1, <1>2, <1>3, <1>4

LEMMA BlanksAre ==
    /\ NoWrite \in Confs
    /\ \A byte \in Byte : Settled(Blank(byte))
<1>1. NoWrite \in Confs
    BY DEF NoWrite, Confs, Byte
<1>2. ASSUME NEW byte \in Byte PROVE Settled(Blank(byte))
    BY BlocksAre DEF Settled, Blank, Confs, Globals
<1> QED
    BY <1>1, <1>2

LEMMA SealOne ==
    ASSUME NEW m, Settled(m), NEW b \in Blocks
    PROVE  /\ Settled([m EXCEPT ![b] = Sealed(@)])
           /\ Passes([m EXCEPT ![b] = Sealed(@)][b])
           /\ \A c \in Blocks \ {b} : [m EXCEPT ![b] = Sealed(@)][c] = m[c]
<1>1. CASE b = "conf"
    BY <1>1, BlocksAre, SealedPasses DEF Settled
<1>2. CASE b = "global"
    BY <1>2, BlocksAre, SealedPasses DEF Settled
<1> QED
    BY <1>1, <1>2, BlocksAre

LEMMA WriteBegins ==
    ASSUME TypeOK, NEW b \in Blocks, NEW next, Settled(next), Write(b, next), eeprom' = eeprom,
           unsaved' \subseteq Blocks, StatusOK',
           \A c \in Blocks \ (unsaved' \cup {b}) : Passes(eeprom[c]) /\ eeprom[c] = next[c]
    PROVE  IInv'
<1>1. /\ ram' = [next EXCEPT ![b] = Sealed(@)] /\ task' = "write" /\ block' = b
      /\ todo' \in {Layout[b], Reverse(Layout[b])}
      /\ before' = IF b = "conf" THEN eeprom["conf"] ELSE NoWrite
    BY DEF Write
<1>2. /\ todo' \in Seq(Cells[b]) /\ todo' # <<>> /\ Len(todo') = Len(Layout[b])
      /\ ToSet(todo') = Cells[b]
    BY <1>1, WholeBlock
<1>3. Settled(ram') /\ Passes(ram'[b]) /\ \A c \in Blocks \ {b} : ram'[c] = next[c]
    BY <1>1, SealOne
<1>4. Len(Layout[b]) \in Nat
    BY BlocksAre DEF Layout
<1>5. before' \in Confs
    BY <1>1, BlanksAre DEF TypeOK
<1>6. TypeOK'
    BY <1>1, <1>2, <1>3, <1>4, <1>5 DEF TypeOK, Settled, StatusOK
<1>7. Writing'
    BY <1>1, <1>2, <1>3 DEF Writing
<1>8. Saved'
    BY <1>1, <1>3 DEF Saved
<1> QED
    BY <1>6, <1>7, <1>8 DEF IInv

\* Nothing being written.
LEMMA Idle ==
    ASSUME NEW b \in Blocks
    PROVE  <<>> \in Seq(Cells[b]) /\ Len(<<>>) <= Len(Layout[b])
<1>1. Len(Layout[b]) \in Nat
    BY BlocksAre DEF Layout
<1> QED
    BY <1>1

LEMMA InitOK == Init => IInv
<1> SUFFICES ASSUME Init PROVE IInv
    OBVIOUS
<1>1. Settled(ram) /\ before \in Confs
    BY BlanksAre DEF Init, Byte
<1>2. Settled(eeprom)
  <2>1. CASE eeprom = Blank(255)
      BY <2>1, BlanksAre DEF Byte
  <2>2. CASE eeprom # Blank(255)
    <3>1. Blank(0)["conf"] \in Confs /\ Blank(0)["global"] \in Globals
        BY BlanksAre DEF Settled, Byte
    <3>2. /\ Sealed(WithOther(Blank(0)["conf"], Defaults)) \in Confs
          /\ Sealed(Blank(0)["global"]) \in Globals
        BY <3>1, ChangesKeepTypes, SealedPasses
    <3> QED
        BY <2>2, <3>2, BlocksAre DEF Init, Settled
  <2> QED
      BY <2>1, <2>2
<1>3. TypeOK
  <2>1. todo \in Seq(Cells[block]) /\ Len(todo) <= Len(Layout[block]) /\ block \in Blocks
      BY Idle, BlocksAre DEF Init
  <2>2. (task = "write") = (todo # <<>>) /\ task \in {"off", "loop", "write"}
      BY DEF Init
  <2>3. StatusOK
    <3>1. failures \in 0 .. MaxFailures
        BY FailuresAssumption DEF Init
    <3>2. {ARMED, calibratingA, CALIBRATE_MAG} \subseteq BOOLEAN
        BY DEF Init
    <3> QED
        BY <3>1, <3>2 DEF StatusOK
  <2>4. unsaved \subseteq Blocks
      BY DEF Init
  <2> QED
      BY <1>1, <1>2, <2>1, <2>2, <2>3, <2>4 DEF TypeOK, Settled, StatusOK
<1> QED
    BY <1>3 DEF Init, IInv, Writing, Saved

LEMMA BootOK == IInv /\ Boot => IInv'
<1> SUFFICES ASSUME IInv, Boot PROVE IInv'
    OBVIOUS
<1> USE DEF IInv
<1> DEFINE global == IF Passes(eeprom["global"]) THEN eeprom["global"]
                                                 ELSE WithAcc(eeprom["global"], 5000)
           read == [eeprom EXCEPT !["global"] = global]
<1>1. Settled(read) /\ read["conf"] = eeprom["conf"] /\ read["global"] = global
    BY ChangesKeepTypes, BlocksAre DEF TypeOK, Settled
<1>2. /\ eeprom' = eeprom /\ StatusOK'
      /\ unsaved' = IF Passes(eeprom["global"]) THEN {} ELSE {"global"}
    BY DEF Boot, status, TypeOK, StatusOK
<1>3. unsaved' \subseteq Blocks
    BY <1>2, BlocksAre
<1>4. "global" \notin unsaved' => Passes(eeprom["global"]) /\ eeprom["global"] = read["global"]
    BY <1>1, <1>2
<1>5. CASE Passes(eeprom["conf"])
  <2>1. ram' = read /\ task' = "loop" /\ UNCHANGED <<block, todo, before>>
      BY <1>5 DEF Boot
  <2>2. todo = <<>>
      BY DEF Boot, TypeOK
  <2>3. TypeOK'
      BY <1>1, <1>2, <1>3, <2>1, <2>2 DEF TypeOK, Settled, StatusOK
  <2> QED
      BY <1>1, <1>2, <1>4, <1>5, <2>1, <2>3, BlocksAre DEF Writing, Saved
<1>6. CASE ~Passes(eeprom["conf"])
  <2> DEFINE next == [read EXCEPT !["conf"] = WithDefaults(@)]
  <2>1. Write("conf", next)
      BY <1>6 DEF Boot
  <2>2. Settled(next) /\ next["global"] = read["global"]
      BY <1>1, ChangesKeepTypes, BlocksAre DEF Settled
  <2> HIDE DEF next, read
  <2>3. \A c \in Blocks \ (unsaved' \cup {"conf"}) : Passes(eeprom[c]) /\ eeprom[c] = next[c]
    <3>1. "global" \notin unsaved' => Passes(eeprom["global"]) /\ eeprom["global"] = next["global"]
        BY <1>4, <2>2
    <3> QED
        BY <3>1, BlocksAre
  <2> QED
      BY <1>2, <1>3, <2>1, <2>2, <2>3, BlocksAre, WriteBegins
<1> QED
    BY <1>5, <1>6

LEMMA WriteCellOK == IInv /\ WriteCell => IInv'
<1> SUFFICES ASSUME IInv, WriteCell PROVE IInv'
    OBVIOUS
<1> USE DEF IInv
<1> DEFINE c == Head(todo)
<1>1. /\ task = "write" /\ eeprom' = [eeprom EXCEPT ![block][c] = ram[block][c]]
      /\ UNCHANGED unsaved /\ StatusOK'
    BY DEF WriteCell, status, TypeOK, StatusOK
<1>2. /\ todo # <<>> /\ c \in Cells[block] /\ Tail(todo) \in Seq(Cells[block])
      /\ Len(Tail(todo)) = Len(todo) - 1
      /\ ToSet(todo) \subseteq {c} \cup ToSet(Tail(todo))
    BY <1>1, OneCellLess DEF TypeOK
<1>3. Settled(eeprom) /\ Settled(ram)
    BY DEF Settled, TypeOK
<1>4. /\ Settled(eeprom') /\ eeprom'[block] = [eeprom[block] EXCEPT ![c] = ram[block][c]]
      /\ \A b \in Blocks \ {block} : eeprom'[b] = eeprom[b]
  <2>1. CASE block = "conf"
      BY <1>1, <1>2, <1>3, <2>1, BlocksAre DEF Settled, Confs
  <2>2. CASE block = "global"
      BY <1>1, <1>2, <1>3, <2>2, BlocksAre DEF Settled, Globals
  <2> QED
      BY <2>1, <2>2, BlocksAre DEF TypeOK
<1>5. \A d \in Cells[block] : eeprom'[block][d] = IF d = c THEN ram[block][d] ELSE eeprom[block][d]
    BY <1>3, <1>4, BlocksAre DEF Settled, Confs, Globals, TypeOK
<1>6. \A d \in Cells[block] \ ToSet(Tail(todo)) : eeprom'[block][d] = ram[block][d]
    BY <1>1, <1>2, <1>5 DEF Writing
<1>7. \A b \in Blocks \ (unsaved \cup {block}) : Passes(eeprom'[b]) /\ eeprom'[b] = ram[b]
    BY <1>1, <1>4 DEF Saved
<1>8. CASE Tail(todo) # <<>>
  <2>1. todo' = Tail(todo) /\ UNCHANGED <<task, ram, block, before>>
      BY <1>8 DEF WriteCell
  <2>2. Len(todo) \in Nat /\ Len(Layout[block]) \in Nat
      BY <1>2, BlocksAre DEF TypeOK, Layout
  <2>3. TypeOK'
      BY <1>1, <1>2, <1>4, <1>8, <2>1, <2>2 DEF TypeOK, Settled, StatusOK
  <2>4. Writing'
      BY <1>1, <1>5, <1>6, <2>1 DEF Writing
  <2> QED
      BY <1>1, <1>7, <2>1, <2>3, <2>4 DEF Saved
<1>9. CASE Tail(todo) = <<>>
  <2>1. \A d \in Cells[block] : eeprom'[block][d] = ram[block][d]
      BY <1>6, <1>9 DEF ToSet
  <2>2. eeprom'[block] = ram[block] /\ Passes(eeprom'[block])
    <3>1. eeprom'[block] = ram[block]
        BY <1>3, <1>4, <2>1, BlocksAre DEF Settled, Confs, Globals, TypeOK
    <3> QED
        BY <1>1, <3>1 DEF Writing
  <2>3. task' = "loop" /\ todo' = <<>> /\ before' = NoWrite /\ UNCHANGED <<ram, block>>
      BY <1>9, <2>2 DEF WriteCell
  <2>4. Len(Layout[block]) \in Nat
      BY BlocksAre DEF TypeOK, Layout
  <2>5. TypeOK'
      BY <1>1, <1>4, <2>3, <2>4, BlanksAre DEF TypeOK, Settled, StatusOK
  <2> QED
      BY <1>1, <1>7, <2>2, <2>3, <2>5 DEF Writing, Saved
<1> QED
    BY <1>8, <1>9

LEMMA PowerFailsOK == IInv /\ PowerFails => IInv'
<1> SUFFICES ASSUME IInv, PowerFails PROVE IInv'
    OBVIOUS
<1> USE DEF IInv
<1>1. Settled(ram') /\ before' \in Confs
    BY BlanksAre DEF PowerFails, Byte
<1>2. failures' \in 0 .. MaxFailures
    BY FailuresAssumption DEF PowerFails, TypeOK
<1>3. TypeOK'
  <2>1. todo' \in Seq(Cells[block']) /\ Len(todo') <= Len(Layout[block']) /\ block' \in Blocks
      BY Idle, BlocksAre DEF PowerFails
  <2>2. (task' = "write") = (todo' # <<>>) /\ task' \in {"off", "loop", "write"}
      BY DEF PowerFails
  <2>3. StatusOK' /\ unsaved' \subseteq Blocks
      BY <1>2 DEF PowerFails, StatusOK
  <2>4. Settled(eeprom')
      BY DEF PowerFails, TypeOK, Settled
  <2> QED
      BY <1>1, <2>1, <2>2, <2>3, <2>4 DEF TypeOK, Settled, StatusOK
<1> QED
    BY <1>3 DEF PowerFails, Writing, Saved

-----------------------------------------------------------------------------
(* The loop.                                                                 *)

\* Conf is written as the loop changes it.
LEMMA WriteParamsOK ==
    ASSUME IInv, NEW conf \in Confs, writeParams(conf)
    PROVE  IInv'
<1> DEFINE next == [ram EXCEPT !["conf"] = conf]
<1>1. /\ task = "loop" /\ Write("conf", next)
      /\ unsaved' = unsaved \ {"conf"} /\ eeprom' = eeprom /\ StatusOK'
    BY DEF writeParams, status, IInv, TypeOK, StatusOK
<1>2. Settled(next) /\ \A b \in Blocks \ {"conf"} : next[b] = ram[b]
    BY BlocksAre DEF IInv, TypeOK, Settled
<1> HIDE DEF next
<1>3. \A b \in Blocks \ (unsaved' \cup {"conf"}) : Passes(eeprom[b]) /\ eeprom[b] = next[b]
    BY <1>1, <1>2 DEF IInv, Saved
<1>4. unsaved' \subseteq Blocks
    BY <1>1 DEF IInv, TypeOK
<1> QED
    BY <1>1, <1>2, <1>3, <1>4, BlocksAre, WriteBegins DEF IInv

LEMMA TrimIsInt == ASSUME NEW conf \in Confs PROVE Trim(conf) \in Int
<1>1. conf["trimLow"] \in Int /\ conf["trimHigh"] \in Int
    BY CellsAre DEF Confs, ConfCells, Byte
<1> QED
    BY <1>1 DEF Trim, Word

LEMMA SticksOK ==
    ASSUME IInv, MSP_EEPROM_WRITE \/ MSP_RESET_CONF \/ \E step \in {-2, 2} : TrimStick(step)
    PROVE  IInv'
<1>1. ram["conf"] \in Confs
    BY DEF IInv, TypeOK
<1>2. CASE MSP_EEPROM_WRITE
    BY <1>1, <1>2, WriteParamsOK DEF MSP_EEPROM_WRITE
<1>3. CASE MSP_RESET_CONF
    BY <1>1, <1>3, ChangesKeepTypes, WriteParamsOK DEF MSP_RESET_CONF
<1>4. ASSUME NEW step \in {-2, 2}, TrimStick(step) PROVE IInv'
  <2>1. Trim(ram["conf"]) + step \in Int
      BY <1>1, TrimIsInt
  <2>2. WithTrim(ram["conf"], Trim(ram["conf"]) + step) \in Confs
      BY <1>1, <2>1, ChangesKeepTypes
  <2> QED
      BY <1>4, <2>2, WriteParamsOK DEF TrimStick
<1> QED
    BY <1>2, <1>3, <1>4

\* What the loop changes in RAM only is not saved until it is written.
LEMMA ChangeOK ==
    ASSUME IInv, NEW b \in Blocks, Settled(ram'), StatusOK',
           task = "loop", UNCHANGED <<eeprom, task, block, todo, before>>,
           unsaved' = unsaved \cup {b}, \A c \in Blocks \ {b} : ram'[c] = ram[c]
    PROVE  IInv'
<1>1. TypeOK'
    BY DEF IInv, TypeOK, Settled, StatusOK
<1> QED
    BY <1>1 DEF IInv, Writing, Saved

LEMMA SetByMSPOK == IInv /\ SetByMSP => IInv'
<1> SUFFICES ASSUME IInv, SetByMSP PROVE IInv'
    OBVIOUS
<1>1. Settled(ram)
    BY DEF IInv, TypeOK, Settled
<1>2. ASSUME NEW conf \in Confs, Set(conf) PROVE IInv'
  <2>1. Settled(ram') /\ \A c \in Blocks \ {"conf"} : ram'[c] = ram[c]
      BY <1>1, <1>2, BlocksAre DEF Set, Settled
  <2>2. StatusOK'
      BY <1>2 DEF Set, status, IInv, TypeOK, StatusOK
  <2> QED
      BY <1>2, <2>1, <2>2, BlocksAre, ChangeOK DEF Set
<1>3. Trims \subseteq Int
    BY TrimsAssumption DEF Int16
<1> QED
    BY <1>1, <1>2, <1>3, ChangesKeepTypes DEF SetByMSP, Settled

LEMMA CalibrationOK ==
    ASSUME IInv, EndMag \/ \E zero \in Zeroes : ReadAcc(zero) \/ EndAcc(zero)
    PROVE  IInv'
<1>1. Settled(ram) /\ unsaved \subseteq Blocks
    BY DEF IInv, TypeOK, Settled
<1>2. Zeroes \subseteq Int
    BY ZeroesAssumption DEF Int16
<1>3. CASE EndMag
  <2>1. Write("global", ram) /\ task = "loop" /\ eeprom' = eeprom /\ unsaved' = unsaved \ {"global"}
      BY <1>3 DEF EndMag
  <2>2. StatusOK'
      BY <1>3 DEF EndMag, IInv, TypeOK, StatusOK
  <2>3. \A c \in Blocks \ (unsaved' \cup {"global"}) : Passes(eeprom[c]) /\ eeprom[c] = ram[c]
      BY <2>1 DEF IInv, Saved
  <2> QED
      BY <1>1, <2>1, <2>2, <2>3, BlocksAre, WriteBegins DEF IInv
<1>4. ASSUME NEW zero \in Zeroes, ReadAcc(zero) PROVE IInv'
  <2>1. WithAcc(ram["global"], zero) \in Globals
      BY <1>1, <1>2, ChangesKeepTypes DEF Settled
  <2>2. Settled(ram') /\ \A c \in Blocks \ {"global"} : ram'[c] = ram[c]
      BY <1>1, <1>4, <2>1, BlocksAre DEF ReadAcc, Settled
  <2>3. StatusOK'
      BY <1>4 DEF ReadAcc, status, IInv, TypeOK, StatusOK
  <2> QED
      BY <1>4, <2>2, <2>3, BlocksAre, ChangeOK DEF ReadAcc
<1>5. ASSUME NEW zero \in Zeroes, EndAcc(zero) PROVE IInv'
  <2> DEFINE next == [conf |-> WithTrim(ram["conf"], 0), global |-> WithAcc(ram["global"], zero)]
  <2>1. /\ task = "loop" /\ Write("global", next) /\ eeprom' = eeprom
        /\ unsaved' = (unsaved \ {"global"}) \cup
                          (IF Trim(ram["conf"]) = 0 THEN {} ELSE {"conf"})
      BY <1>5 DEF EndAcc
  <2>2. StatusOK'
      BY <1>5 DEF EndAcc, IInv, TypeOK, StatusOK
  <2>3. WithTrim(ram["conf"], 0) \in Confs /\ WithAcc(ram["global"], zero) \in Globals
      BY <1>1, <1>2, ChangesKeepTypes DEF Settled
  <2>4. Settled(next)
      BY <2>3, BlocksAre DEF Settled
  <2>5. Trim(ram["conf"]) = 0 => next["conf"] = ram["conf"]
      BY <1>1, NoTrim DEF Settled
  <2> HIDE DEF next
  <2>6. \A c \in Blocks \ (unsaved' \cup {"global"}) : Passes(eeprom[c]) /\ eeprom[c] = next[c]
    <3>1. SUFFICES ASSUME "conf" \notin unsaved'
                   PROVE  Passes(eeprom["conf"]) /\ eeprom["conf"] = next["conf"]
        BY BlocksAre
    <3>2. Trim(ram["conf"]) = 0 /\ "conf" \notin unsaved
        BY <2>1, <3>1
    <3> QED
        BY <2>1, <2>5, <3>2, BlocksAre DEF IInv, Saved
  <2>7. unsaved' \subseteq Blocks
      BY <1>1, <2>1, BlocksAre
  <2> QED
      BY <2>1, <2>2, <2>4, <2>6, <2>7, BlocksAre, WriteBegins DEF IInv
<1> QED
    BY <1>3, <1>4, <1>5

LEMMA ArmingOK == IInv /\ (BeginCalibration \/ Arm) => IInv'
<1> SUFFICES ASSUME IInv, BeginCalibration \/ Arm PROVE IInv'
    OBVIOUS
<1>1. /\ UNCHANGED <<ram, eeprom, task, block, todo, failures, unsaved, before>>
      /\ {ARMED', calibratingA', CALIBRATE_MAG'} \subseteq BOOLEAN
    BY DEF BeginCalibration, Arm, IInv, TypeOK
<1>2. TypeOK'
    BY <1>1 DEF IInv, TypeOK
<1> QED
    BY <1>1, <1>2 DEF IInv, Writing, Saved

LEMMA Invariance == Spec => []IInv
<1>1. IInv /\ Loop => IInv'
    BY SticksOK, SetByMSPOK, CalibrationOK, ArmingOK DEF Loop
<1>2. IInv /\ UNCHANGED vars => IInv'
    BY DEF vars, status, IInv, TypeOK, Writing, Saved
<1>3. IInv /\ [Next]_vars => IInv'
    BY <1>1, <1>2, BootOK, PowerFailsOK, WriteCellOK DEF Next
<1> QED
    BY <1>3, InitOK, PTL DEF Spec

-----------------------------------------------------------------------------

\* Every byte stays a byte, a write stays within its block, and there is something
\* left to write exactly while one goes on.
THEOREM TypeCorrect == Spec => []TypeOK
BY Invariance, PTL DEF IInv

\* What the loop flies is what the next start will read, for each block that has not been
\* changed since it was read or written: whatever was measured, set and defaulted, and
\* wherever power failed.
THEOREM SavedIsFlown == Spec => []FliesWhatIsSaved
<1>1. IInv => FliesWhatIsSaved
    BY DEF IInv, Saved, FliesWhatIsSaved
<1> QED
    BY <1>1, Invariance, PTL

\* A write of conf that changes two bytes at most leaves, wherever it is cut, what the
\* checksum tells from settings, or the settings before, or those after.
THEOREM TornWriteIsCaught == Spec => []TornIsCaught
<1>1. IInv => TornIsCaught
  <2> SUFFICES ASSUME IInv, task = "write", block = "conf", Passes(before),
                      Cardinality(Changed) <= 2, Passes(eeprom["conf"])
               PROVE  eeprom["conf"] \in {before, ram["conf"]}
      BY DEF TornIsCaught
  <2>1. Changed \in SUBSET ConfCells
      BY CellsAre DEF Changed
  <2>2. PICK a \in ConfCells, b \in ConfCells : Changed \subseteq {a, b}
      BY <2>1, TwoAtMost
  <2>3. \A c \in ConfCells \ {a, b, "sum"} : before[c] = ram["conf"][c]
      BY <2>2, CellsAre DEF Changed
  <2>4. /\ before \in Confs /\ ram["conf"] \in Confs /\ eeprom["conf"] \in Confs
        /\ Passes(ram["conf"])
        /\ \A c \in ConfCells : eeprom["conf"][c] \in {before[c], ram["conf"][c]}
      BY CellsAre DEF IInv, TypeOK, Writing
  <2> QED
      BY <2>3, <2>4, MixTold
<1> QED
    BY <1>1, Invariance, PTL
=============================================================================
