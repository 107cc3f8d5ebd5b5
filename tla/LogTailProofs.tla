-------------------------- MODULE LogTailProofs --------------------------
(***************************************************************************)
(* Theorems about LogTail, for any number of lines, files, truncations and *)
(* errors.                                                                 *)
(***************************************************************************)
EXTENDS LogTail, FiniteSetTheorems, SequenceTheorems, WellFoundedInduction, TLAPS

-----------------------------------------------------------------------------
(* Units and where they are. *)

HeadOf(m) == <<m, "head">>
TailOf(m) == <<m, "tail">>

(* The units in the order they are written. *)
Rank(u) == 2 * u[1] + (IF IsTail(u) THEN 1 ELSE 0)
NextRank == 2 * nextLine + (IF half THEN 1 ELSE 0)

(* What a line written to the file now has as its home. *)
HomeOf(i) == <<i, epoch[i]>>

(* The units of a line have two ranks of their own. *)
LEMMA RankLaw ==
    /\ \A n \in Lines : /\ HeadOf(n) \in Units /\ TailOf(n) \in Units
                        /\ Rank(HeadOf(n)) = 2 * n /\ Rank(TailOf(n)) = 2 * n + 1
                        /\ ~IsTail(HeadOf(n)) /\ IsTail(TailOf(n))
    /\ \A u \in Units : /\ u[1] \in Lines /\ Rank(u) \in Int
                        /\ u = HeadOf(u[1]) \/ u = TailOf(u[1])
                        /\ u[2] = "head" <=> u = HeadOf(u[1])
                        /\ IsTail(u) <=> u = TailOf(u[1])
    /\ Lines \subseteq Nat \ {0}
BY TailBoundAssumption DEF Units, Lines, HeadOf, TailOf, Rank, IsTail

(* What it means to append a unit to a file. *)
LEMMA AppendLaw ==
    ASSUME TypeOK, NEW i \in Inodes, NEW u \in Units,
           files' = [files EXCEPT ![i] = Append(@, u)]
    PROVE  /\ files' \in [Inodes -> Seq(Units)]
           /\ \A h \in Inodes : Size(h)' = Size(h) + (IF h = i THEN 1 ELSE 0)
           /\ \A h \in Inodes : \A k \in 1 .. Size(h) : files'[h][k] = files[h][k]
           /\ files'[i][Size(i) + 1] = u
<1>1. files \in [Inodes -> Seq(Units)]
  BY DEF TypeOK
<1>2. files'[i] = Append(files[i], u) /\ \A h \in Inodes \ {i} : files'[h] = files[h]
  BY <1>1
<1>3. /\ Append(files[i], u) \in Seq(Units)
      /\ Len(Append(files[i], u)) = Len(files[i]) + 1
      /\ \A k \in 1 .. Len(files[i]) : Append(files[i], u)[k] = files[i][k]
      /\ Append(files[i], u)[Len(files[i]) + 1] = u
  BY <1>1, AppendProperties
<1>4. \A h \in Inodes : Len(files[h]) \in Nat
  BY <1>1, LenProperties
<1> QED
  BY <1>1, <1>2, <1>3, <1>4 DEF Size

(* Where a unit of the file is that a unit was appended to. *)
LEMMA AppendCases ==
    ASSUME TypeOK, NEW i \in Inodes, NEW u \in Units,
           files' = [files EXCEPT ![i] = Append(@, u)]
    PROVE  \A h \in Inodes : \A k \in 1 .. Size(h)' :
              \/ k \in 1 .. Size(h) /\ files'[h][k] = files[h][k]
              \/ h = i /\ k = Size(i) + 1 /\ files'[h][k] = u
<1> SUFFICES ASSUME NEW h \in Inodes, NEW k \in 1 .. Size(h)'
             PROVE  \/ k \in 1 .. Size(h) /\ files'[h][k] = files[h][k]
                    \/ h = i /\ k = Size(i) + 1 /\ files'[h][k] = u
  OBVIOUS
<1>1. Size(h) \in Nat /\ Size(h)' = Size(h) + (IF h = i THEN 1 ELSE 0)
  BY AppendLaw, LenProperties DEF TypeOK, Size
<1>2. k \in 1 .. Size(h) \/ (h = i /\ k = Size(i) + 1)
  BY <1>1
<1>3. /\ \A x \in Inodes : \A j \in 1 .. Size(x) : files'[x][j] = files[x][j]
      /\ files'[i][Size(i) + 1] = u
  BY AppendLaw
<1> QED
  BY <1>2, <1>3

(* The sizes of files are numbers, and what a file holds are units. *)
LEMMA FileLaw ==
    ASSUME TypeOK, NEW i \in Inodes
    PROVE  Size(i) \in Nat /\ \A k \in 1 .. Size(i) : files[i][k] \in Units
BY LenProperties DEF TypeOK, Size

(* The end of the first line of the buffer. *)
LEMMA LineEndLaw ==
    ASSUME TypeOK, HasLine
    PROVE  /\ LineEnd \in 1 .. Len(ahead)
           /\ IsTail(ahead[LineEnd])
           /\ \A j \in 1 .. LineEnd - 1 : ~IsTail(ahead[j])
<1> DEFINE E == {i \in DOMAIN ahead : IsTail(ahead[i])}
<1>1. ahead \in Seq(Units) /\ DOMAIN ahead = 1 .. Len(ahead) /\ Len(ahead) \in Nat
  BY LenProperties DEF TypeOK
<1>2. E # {} /\ E \subseteq Nat
  BY <1>1 DEF HasLine
<1>3. PICK x \in E : \A y \in E : ~(y < x)
  <2>1. IsWellFoundedOn(OpToRel(<, Nat), Nat)
    BY NatLessThanWellFounded
  <2>2. PICK x \in E : \A y \in E : <<y, x>> \notin OpToRel(<, Nat)
    BY <1>2, <2>1, WFMin
  <2> QED BY <1>2, <2>2 DEF OpToRel
<1>4. LineEnd \in E /\ \A y \in E : LineEnd =< y
  BY <1>2, <1>3 DEF LineEnd, Min
<1> QED
  BY <1>1, <1>4

-----------------------------------------------------------------------------
(* The disk. *)

(* Lines get their homes one after the other; the one half written is at the
   end of the file the path names, which is neither rolled nor cut then. *)
WriterInv ==
    /\ Len(home) = IF half THEN nextLine ELSE nextLine - 1
    /\ half => nextLine =< MaxLines /\ path # NoFile /\ home[nextLine] = HomeOf(path)
    /\ path = NoFile => newest < MaxFiles
    /\ \A i \in Inodes : i > newest => files[i] = <<>>
    /\ \A m \in 1 .. Len(home) : home[m][1] \in 1 .. newest /\ home[m][2] =< epoch[home[m][1]]

(* What a file holds was written to it since it was truncated last, and a head
   is followed by its tail. *)
UnitInv ==
    \A i \in Inodes : \A k \in 1 .. Size(i) :
        /\ files[i][k][1] \in 1 .. Len(home)
        /\ home[files[i][k][1]] = HomeOf(i)
        /\ Rank(files[i][k]) < NextRank
        /\ files[i][k][2] = "head" =>
             \/ k < Size(i) /\ files[i][k + 1] = TailOf(files[i][k][1])
             \/ k = Size(i) /\ half /\ i = path /\ files[i][k][1] = nextLine

(* Units lie in a file in the order they were written, and in older files
   there are older units. *)
RankInv ==
    /\ \A i \in Inodes : \A k \in 1 .. Size(i) : \A j \in 1 .. k - 1 :
         Rank(files[i][j]) < Rank(files[i][k])
    /\ \A i \in Inodes : \A h \in 1 .. i - 1 :
         \A k \in 1 .. Size(i) : \A j \in 1 .. Size(h) : Rank(files[h][j]) < Rank(files[i][k])

(* A line is still where it was written unless that file was truncated. *)
HomeInv ==
    \A m \in 1 .. Len(home) : \A i \in Inodes : home[m] = HomeOf(i) =>
        \E k \in 1 .. Size(i) : files[i][k] = HeadOf(m)

DiskInv == WriterInv /\ UnitInv /\ RankInv /\ HomeInv

(* The disk at the start. *)
LEMMA DiskInit == Init => DiskInv
<1> SUFFICES ASSUME Init PROVE DiskInv
  OBVIOUS
<1>1. \A i \in Inodes : Size(i) = 0 /\ files[i] = <<>>
  BY DEF Init, Size
<1>2. Len(home) = 0 /\ nextLine = 1 /\ ~half /\ path = 1
  BY DEF Init
<1>3. WriterInv
  BY <1>1, <1>2 DEF WriterInv, NoFile
<1>4. UnitInv /\ RankInv
  BY <1>1 DEF UnitInv, RankInv, Inodes
<1>5. HomeInv
  BY <1>2 DEF HomeInv
<1> QED BY <1>3, <1>4, <1>5 DEF DiskInv

(* A line gets its home when its head is written. *)
LEMMA HeadWritten ==
    ASSUME TypeOK, WriterInv, WriteHead
    PROVE  /\ path \in Inodes /\ nextLine \in Lines /\ HeadOf(nextLine) \in Units
           /\ path = newest
           /\ files' = [files EXCEPT ![path] = Append(@, HeadOf(nextLine))]
           /\ home' \in Seq(Inodes \X Nat)
           /\ Len(home) = nextLine - 1
           /\ Len(home') = nextLine
           /\ \A m \in 1 .. Len(home) : home'[m] = home[m]
           /\ home'[nextLine] = HomeOf(path)
           /\ HomeOf(path) \in Inodes \X Nat
<1>1. path \in Inodes /\ path = newest /\ nextLine \in Lines
  BY DEF WriteHead, TypeOK, Lines, NoFile
<1>2. HomeOf(path) \in Inodes \X Nat
  BY <1>1, TailBoundAssumption DEF HomeOf, TypeOK
<1>3. home' = Append(home, HomeOf(path)) /\ home \in Seq(Inodes \X Nat)
  BY DEF WriteHead, HomeOf, TypeOK
<1>4. Len(home) = nextLine - 1
  BY DEF WriterInv, WriteHead
<1>5. nextLine \in Int
  BY DEF TypeOK
<1> QED
  BY <1>1, <1>2, <1>3, <1>4, <1>5, AppendProperties, RankLaw DEF WriteHead, HeadOf

(* Appending the next unit to the newest file keeps the order. *)
LEMMA RankAppend ==
    ASSUME TypeOK, WriterInv, UnitInv, RankInv, path \in Inodes, path = newest,
           NEW u \in Units, Rank(u) = NextRank,
           files' = [files EXCEPT ![path] = Append(@, u)]
    PROVE  RankInv'
<1>1. /\ \A h \in Inodes : Size(h)' = Size(h) + (IF h = path THEN 1 ELSE 0) /\ Size(h) \in Nat
      /\ \A h \in Inodes : \A k \in 1 .. Size(h) : files'[h][k] = files[h][k]
      /\ files'[path][Size(path) + 1] = u
  BY AppendLaw, FileLaw
<1>2. \A h \in Inodes : h > path => Size(h)' = 0
  BY <1>1 DEF WriterInv, Size
<1>3. ASSUME NEW i \in Inodes, NEW k \in 1 .. Size(i)', NEW j \in 1 .. k - 1
      PROVE  Rank(files'[i][j]) < Rank(files'[i][k])
  <2>0. /\ Size(i) \in Nat /\ k \in Int /\ j \in Int /\ 1 <= j /\ j < k
        /\ k <= Size(i) + (IF i = path THEN 1 ELSE 0)
    <3>1. Size(i) \in Nat /\ Size(i)' = Size(i) + (IF i = path THEN 1 ELSE 0)
      BY <1>1
    <3> QED BY <3>1
  <2>1. j \in 1 .. Size(i) /\ files'[i][j] = files[i][j]
    <3>1. j \in 1 .. Size(i)
      BY <2>0
    <3> QED BY <1>1, <3>1
  <2>2. CASE k \in 1 .. Size(i)
    <3>1. Rank(files[i][j]) < Rank(files[i][k])
      BY <2>2 DEF RankInv
    <3>2. files'[i][k] = files[i][k]
      BY <1>1, <2>2
    <3> QED BY <2>1, <3>1, <3>2
  <2>3. CASE k = Size(i) + 1 /\ i = path
    <3>1. Rank(files[i][j]) < NextRank
      BY <2>1 DEF UnitInv
    <3>2. files'[i][k] = u
      BY <1>1, <2>3
    <3>3. Rank(files'[i][k]) = NextRank
      BY <3>2
    <3>4. Rank(files'[i][j]) = Rank(files[i][j])
      BY <2>1
    <3> QED BY <3>1, <3>3, <3>4
  <2>4. k \in 1 .. Size(i) \/ (k = Size(i) + 1 /\ i = path)
    BY <2>0
  <2> QED BY <2>2, <2>3, <2>4
<1>4. ASSUME NEW i \in Inodes, NEW h \in 1 .. i - 1, NEW k \in 1 .. Size(i)', NEW j \in 1 .. Size(h)'
      PROVE  Rank(files'[h][j]) < Rank(files'[i][k])
  <2>1. h \in Inodes /\ h # path
    <3>1. h \in Inodes /\ h \in Int /\ i \in Int /\ h < i
      BY TailBoundAssumption DEF Inodes
    <3>2. ~(i > path)
      BY <1>2
    <3> QED BY <3>1, <3>2
  <2>0. /\ Size(i) \in Nat /\ k \in Int /\ 1 <= k
        /\ k <= Size(i) + (IF i = path THEN 1 ELSE 0)
    <3>1. Size(i) \in Nat /\ Size(i)' = Size(i) + (IF i = path THEN 1 ELSE 0)
      BY <1>1
    <3> QED BY <3>1
  <2>2. j \in 1 .. Size(h) /\ files'[h][j] = files[h][j]
    <3>1. Size(h)' = Size(h) /\ Size(h) \in Nat
      BY <1>1, <2>1
    <3>2. j \in 1 .. Size(h)
      BY <3>1
    <3> QED BY <1>1, <2>1, <3>2
  <2>3. CASE k \in 1 .. Size(i)
    <3>1. Rank(files[h][j]) < Rank(files[i][k])
      BY <2>2, <2>3 DEF RankInv
    <3>2. files'[i][k] = files[i][k]
      BY <1>1, <2>3
    <3> QED BY <2>2, <3>1, <3>2
  <2>4. CASE k = Size(i) + 1 /\ i = path
    <3>1. Rank(files[h][j]) < NextRank
      BY <2>1, <2>2 DEF UnitInv
    <3>2. files'[i][k] = u
      BY <1>1, <2>4
    <3>3. Rank(files'[i][k]) = NextRank
      BY <3>2
    <3>4. Rank(files'[h][j]) = Rank(files[h][j])
      BY <2>2
    <3> QED BY <3>1, <3>3, <3>4
  <2>5. k \in 1 .. Size(i) \/ (k = Size(i) + 1 /\ i = path)
    BY <2>0
  <2> QED BY <2>3, <2>4, <2>5
<1> QED
  BY <1>3, <1>4 DEF RankInv

(* The head of a line is written. *)
LEMMA HeadStep ==
    ASSUME TypeOK, DiskInv, WriteHead
    PROVE  DiskInv'
<1> DEFINE u == HeadOf(nextLine)
<1>0. WriterInv /\ UnitInv /\ RankInv /\ HomeInv
  BY DEF DiskInv
<1>1. /\ path \in Inodes /\ nextLine \in Lines /\ u \in Units /\ path = newest
      /\ files' = [files EXCEPT ![path] = Append(@, u)]
      /\ Len(home) = nextLine - 1
      /\ Len(home') = nextLine
      /\ \A m \in 1 .. Len(home) : home'[m] = home[m]
      /\ home'[nextLine] = HomeOf(path)
  BY <1>0, HeadWritten
<1>2. /\ ~half /\ half' /\ path # NoFile /\ nextLine =< MaxLines
      /\ UNCHANGED <<newest, path, nextLine, epoch>>
  BY DEF WriteHead
<1>3. Rank(u) = NextRank /\ NextRank' = NextRank + 1 /\ NextRank = 2 * nextLine /\ nextLine \in Nat
  BY <1>1, <1>2, RankLaw DEF NextRank, Lines
<1>4. \A h \in Inodes : HomeOf(h)' = HomeOf(h)
  BY <1>2 DEF HomeOf
<1>5. /\ \A h \in Inodes : Size(h) \in Nat /\ Size(h)' = Size(h) + (IF h = path THEN 1 ELSE 0)
      /\ \A h \in Inodes : \A k \in 1 .. Size(h) : files'[h][k] = files[h][k]
      /\ files'[path][Size(path) + 1] = u
  BY <1>1, AppendLaw, FileLaw
<1>10. \A h \in Inodes : \A k \in 1 .. Size(h)' :
          \/ k \in 1 .. Size(h) /\ files'[h][k] = files[h][k]
          \/ h = path /\ k = Size(path) + 1 /\ files'[h][k] = u
  BY <1>1, AppendCases
<1> HIDE DEF u
<1>6. WriterInv'
  <2>1. \A i \in Inodes : i > newest => files'[i] = <<>>
    <3> SUFFICES ASSUME NEW i \in Inodes, i > newest PROVE files'[i] = <<>>
      OBVIOUS
    <3>1. i # path
      BY <1>1 DEF Inodes
    <3> QED BY <1>0, <1>1, <3>1 DEF WriterInv, TypeOK
  <2>2. ASSUME NEW m \in 1 .. nextLine
        PROVE  home'[m][1] \in 1 .. newest /\ home'[m][2] =< epoch[home'[m][1]]
    <3>1. CASE m = nextLine
      <4>1. home'[m][1] = path /\ home'[m][2] = epoch[path]
        BY <1>1, <3>1 DEF HomeOf
      <4>2. path \in 1 .. newest /\ epoch[path] \in Int
        BY <1>1, TailBoundAssumption DEF Inodes, TypeOK
      <4> QED BY <4>1, <4>2
    <3>2. CASE m # nextLine
      <4>1. m \in 1 .. Len(home)
        BY <1>1, <1>3, <3>2
      <4> QED BY <1>0, <1>1, <4>1 DEF WriterInv
    <3> QED BY <3>1, <3>2
  <2> QED BY <1>1, <1>2, <1>4, <2>1, <2>2 DEF WriterInv
<1>7. UnitInv'
  <2> SUFFICES ASSUME NEW i \in Inodes, NEW k \in 1 .. Size(i)'
               PROVE  /\ files'[i][k][1] \in 1 .. Len(home')
                      /\ home'[files'[i][k][1]] = HomeOf(i)
                      /\ Rank(files'[i][k]) < NextRank'
                      /\ files'[i][k][2] = "head" =>
                           \/ k < Size(i)' /\ files'[i][k + 1] = TailOf(files'[i][k][1])
                           \/ k = Size(i)' /\ i = path /\ files'[i][k][1] = nextLine
    BY <1>2, <1>4 DEF UnitInv
  <2>1. CASE k \in 1 .. Size(i) /\ files'[i][k] = files[i][k]
    <3>1. /\ files[i][k][1] \in 1 .. Len(home)
          /\ home[files[i][k][1]] = HomeOf(i)
          /\ Rank(files[i][k]) < NextRank
          /\ files[i][k][2] = "head" => k < Size(i) /\ files[i][k + 1] = TailOf(files[i][k][1])
      BY <1>0, <1>2, <2>1 DEF UnitInv
    <3>2. files[i][k] \in Units
      BY <2>1, FileLaw
    <3>3. Rank(files[i][k]) < NextRank'
      BY <1>3, <3>1, <3>2, RankLaw
    <3>4. files[i][k][1] \in 1 .. Len(home')
      BY <1>1, <1>3, <3>1
    <3>5. Size(i) \in Nat /\ Size(i)' \in Nat /\ Size(i) <= Size(i)'
      BY <1>5
    <3>6. ASSUME files[i][k][2] = "head"
          PROVE  k < Size(i)' /\ files'[i][k + 1] = TailOf(files[i][k][1])
      <4>1. k + 1 \in 1 .. Size(i)
        BY <2>1, <3>1, <3>5, <3>6
      <4>2. k < Size(i)'
        BY <2>1, <3>5, <4>1
      <4> QED BY <1>5, <3>1, <3>6, <4>1, <4>2
    <3> QED BY <1>1, <2>1, <3>1, <3>3, <3>4, <3>6
  <2>2. CASE i = path /\ k = Size(i) + 1 /\ files'[i][k] = u
    <3>1. u[1] = nextLine
      BY DEF u, HeadOf
    <3>2. k = Size(i)'
      BY <1>5, <2>2
    <3>3. nextLine \in 1 .. Len(home') /\ NextRank < NextRank'
      BY <1>1, <1>3 DEF Lines
    <3> QED BY <1>1, <1>3, <2>2, <3>1, <3>2, <3>3
  <2>3. \/ k \in 1 .. Size(i) /\ files'[i][k] = files[i][k]
        \/ i = path /\ k = Size(path) + 1 /\ files'[i][k] = u
    BY <1>10
  <2> QED BY <2>1, <2>2, <2>3
<1>8. RankInv'
  BY <1>0, <1>1, <1>3, RankAppend
<1>9. HomeInv'
  <2> SUFFICES ASSUME NEW m \in 1 .. nextLine, NEW i \in Inodes, home'[m] = HomeOf(i)
               PROVE  \E k \in 1 .. Size(i)' : files'[i][k] = HeadOf(m)
    BY <1>1, <1>4 DEF HomeInv
  <2>0. Size(i) \in Nat /\ Size(i)' = Size(i) + (IF i = path THEN 1 ELSE 0)
    BY <1>5
  <2>1. CASE m = nextLine
    <3>1. i = path
      BY <1>1, <2>1 DEF HomeOf
    <3>2. Size(i) + 1 \in 1 .. Size(i)'
      BY <2>0, <3>1
    <3> QED BY <1>5, <2>1, <3>1, <3>2 DEF u
  <2>2. CASE m # nextLine
    <3>1. m \in 1 .. Len(home)
      BY <1>1, <1>3, <2>2
    <3>2. PICK k \in 1 .. Size(i) : files[i][k] = HeadOf(m)
      BY <1>0, <1>1, <3>1 DEF HomeInv
    <3>3. k \in 1 .. Size(i)'
      BY <2>0
    <3> QED BY <1>5, <3>2, <3>3
  <2> QED BY <2>1, <2>2
<1> QED
  BY <1>6, <1>7, <1>8, <1>9 DEF DiskInv

(* The tail of the line is written, after its head. *)
LEMMA TailStep ==
    ASSUME TypeOK, DiskInv, WriteTail
    PROVE  DiskInv'
<1> DEFINE u == TailOf(nextLine)
<1>0. WriterInv /\ UnitInv /\ RankInv /\ HomeInv
  BY DEF DiskInv
<1>1. /\ half /\ path # NoFile /\ nextLine =< MaxLines /\ Len(home) = nextLine
      /\ home[nextLine] = HomeOf(path)
      /\ path \in Inodes /\ path = newest /\ nextLine \in Lines /\ u \in Units
      /\ files' = [files EXCEPT ![path] = Append(@, u)]
  <2>1. half /\ path # NoFile /\ nextLine =< MaxLines /\ path = newest /\ newest \in Inodes
        /\ nextLine \in Nat /\ nextLine >= 1
    BY <1>0 DEF WriteTail, WriterInv, TypeOK
  <2>2. nextLine \in Lines
    BY <2>1, TailBoundAssumption DEF Lines
  <2>3. u \in Units
    BY <2>2, RankLaw
  <2> QED BY <1>0, <2>1, <2>2, <2>3 DEF WriteTail, WriterInv, TailOf
<1>2. ~half' /\ nextLine' = nextLine + 1 /\ UNCHANGED <<newest, path, home, epoch>>
  BY DEF WriteTail
<1>3. /\ Rank(u) = NextRank /\ NextRank' = NextRank + 1 /\ NextRank = 2 * nextLine + 1
      /\ nextLine \in Nat
  BY <1>1, <1>2, RankLaw DEF NextRank, Lines
<1>4. \A h \in Inodes : HomeOf(h)' = HomeOf(h)
  BY <1>2 DEF HomeOf
<1>5. /\ \A h \in Inodes : Size(h) \in Nat /\ Size(h)' = Size(h) + (IF h = path THEN 1 ELSE 0)
      /\ \A h \in Inodes : \A k \in 1 .. Size(h) : files'[h][k] = files[h][k]
      /\ files'[path][Size(path) + 1] = u
  BY <1>1, AppendLaw, FileLaw
<1>10. \A h \in Inodes : \A k \in 1 .. Size(h)' :
          \/ k \in 1 .. Size(h) /\ files'[h][k] = files[h][k]
          \/ h = path /\ k = Size(path) + 1 /\ files'[h][k] = u
  BY <1>1, AppendCases
<1> HIDE DEF u
<1>6. WriterInv'
  <2>1. \A i \in Inodes : i > newest => files'[i] = <<>>
    <3> SUFFICES ASSUME NEW i \in Inodes, i > newest PROVE files'[i] = <<>>
      OBVIOUS
    <3>1. i # path
      BY <1>1 DEF Inodes
    <3> QED BY <1>0, <1>1, <3>1 DEF WriterInv, TypeOK
  <2>2. Len(home') = nextLine' - 1
    BY <1>1, <1>2, <1>3
  <2> QED BY <1>0, <1>1, <1>2, <2>1, <2>2 DEF WriterInv
<1>7. UnitInv'
  <2> SUFFICES ASSUME NEW i \in Inodes, NEW k \in 1 .. Size(i)'
               PROVE  /\ files'[i][k][1] \in 1 .. Len(home)
                      /\ home[files'[i][k][1]] = HomeOf(i)
                      /\ Rank(files'[i][k]) < NextRank'
                      /\ files'[i][k][2] = "head" =>
                           k < Size(i)' /\ files'[i][k + 1] = TailOf(files'[i][k][1])
    BY <1>2, <1>4 DEF UnitInv
  <2>1. CASE k \in 1 .. Size(i) /\ files'[i][k] = files[i][k]
    <3>1. /\ files[i][k][1] \in 1 .. Len(home)
          /\ home[files[i][k][1]] = HomeOf(i)
          /\ Rank(files[i][k]) < NextRank
          /\ files[i][k][2] = "head" =>
               \/ k < Size(i) /\ files[i][k + 1] = TailOf(files[i][k][1])
               \/ k = Size(i) /\ i = path /\ files[i][k][1] = nextLine
      BY <1>0, <2>1 DEF UnitInv
    <3>2. files[i][k] \in Units
      BY <2>1, FileLaw
    <3>3. Rank(files[i][k]) < NextRank'
      BY <1>3, <3>1, <3>2, RankLaw
    <3>4. Size(i) \in Nat /\ Size(i)' \in Nat /\ Size(i)' = Size(i) + (IF i = path THEN 1 ELSE 0)
      BY <1>5
    <3>5. ASSUME files[i][k][2] = "head"
          PROVE  k < Size(i)' /\ files'[i][k + 1] = TailOf(files[i][k][1])
      <4>1. CASE k < Size(i) /\ files[i][k + 1] = TailOf(files[i][k][1])
        <5>1. k + 1 \in 1 .. Size(i)
          BY <2>1, <3>4, <4>1
        <5>2. k < Size(i)'
          BY <2>1, <3>4, <4>1
        <5> QED BY <1>5, <4>1, <5>1, <5>2
      <4>2. CASE k = Size(i) /\ i = path /\ files[i][k][1] = nextLine
        <5>1. k < Size(i)'
          BY <2>1, <3>4, <4>2
        <5> QED BY <1>5, <4>2, <5>1 DEF u
      <4> QED BY <3>1, <3>5, <4>1, <4>2
    <3> QED BY <2>1, <3>1, <3>3, <3>5
  <2>2. CASE i = path /\ k = Size(path) + 1 /\ files'[i][k] = u
    <3>1. u[1] = nextLine /\ u[2] = "tail"
      BY DEF u, TailOf
    <3>2. nextLine \in 1 .. Len(home) /\ NextRank < NextRank'
      BY <1>1, <1>3 DEF Lines
    <3> QED BY <1>1, <1>3, <2>2, <3>1, <3>2
  <2>3. \/ k \in 1 .. Size(i) /\ files'[i][k] = files[i][k]
        \/ i = path /\ k = Size(path) + 1 /\ files'[i][k] = u
    BY <1>10
  <2> QED BY <2>1, <2>2, <2>3
<1>8. RankInv'
  BY <1>0, <1>1, <1>3, RankAppend
<1>9. HomeInv'
  <2> SUFFICES ASSUME NEW m \in 1 .. Len(home), NEW i \in Inodes, home[m] = HomeOf(i)
               PROVE  \E k \in 1 .. Size(i)' : files'[i][k] = HeadOf(m)
    BY <1>2, <1>4 DEF HomeInv
  <2>1. PICK k \in 1 .. Size(i) : files[i][k] = HeadOf(m)
    BY <1>0 DEF HomeInv
  <2>2. Size(i) \in Nat /\ Size(i)' = Size(i) + (IF i = path THEN 1 ELSE 0)
    BY <1>5
  <2>3. k \in 1 .. Size(i)'
    BY <2>2
  <2> QED BY <1>5, <2>1, <2>3
<1> QED
  BY <1>6, <1>7, <1>8, <1>9 DEF DiskInv

(* The log is rolled: an empty file takes the place of the old one. *)
LEMMA RollStep ==
    ASSUME TypeOK, DiskInv, RollAway \/ RollCreate
    PROVE  DiskInv'
<1>0. WriterInv /\ UnitInv /\ RankInv /\ HomeInv
  BY DEF DiskInv
<1>1. ~half /\ UNCHANGED <<files, nextLine, half, epoch, home>>
  BY <1>0 DEF RollAway, RollCreate, WriterInv
<1>2. NextRank' = NextRank /\ \A i : Size(i)' = Size(i) /\ HomeOf(i)' = HomeOf(i)
  BY <1>1 DEF NextRank, Size, HomeOf
<1>3. WriterInv'
  <2>1. CASE RollAway
    BY <1>0, <1>1, <2>1 DEF RollAway, WriterInv
  <2>2. CASE RollCreate
    <3>1. path' = newest + 1 /\ newest' = newest + 1 /\ newest \in Nat
      BY <2>2, TailBoundAssumption DEF RollCreate, TypeOK, Inodes
    <3>2. path' # NoFile
      BY <3>1 DEF NoFile
    <3>3. \A i \in Inodes : i > newest' => files[i] = <<>>
      BY <1>0, <3>1, TailBoundAssumption DEF WriterInv, Inodes
    <3>4. \A m \in 1 .. Len(home) : home[m][1] \in 1 .. newest'
      BY <1>0, <3>1 DEF WriterInv
    <3> QED BY <1>0, <1>1, <3>2, <3>3, <3>4 DEF WriterInv
  <2> QED BY <2>1, <2>2
<1>4. UnitInv'
  BY <1>0, <1>1, <1>2 DEF UnitInv
<1>5. RankInv'
  BY <1>0, <1>1, <1>2 DEF RankInv
<1>6. HomeInv'
  BY <1>0, <1>1, <1>2 DEF HomeInv
<1> QED
  BY <1>3, <1>4, <1>5, <1>6 DEF DiskInv

(* The log is cut to nothing: what was written to it is no longer there. *)
LEMMA TruncateStep ==
    ASSUME TypeOK, DiskInv, Truncate
    PROVE  DiskInv'
<1>0. WriterInv /\ UnitInv /\ RankInv /\ HomeInv
  BY DEF DiskInv
<1>1. ~half /\ path \in Inodes /\ UNCHANGED <<newest, path, nextLine, half, home>>
  BY DEF Truncate, TypeOK
<1>2. files'[path] = <<>> /\ epoch'[path] = epoch[path] + 1 /\ epoch[path] \in Int
  BY <1>1, TailBoundAssumption DEF Truncate, TypeOK
<1>3. \A i \in Inodes \ {path} : files'[i] = files[i] /\ epoch'[i] = epoch[i] /\ HomeOf(i)' = HomeOf(i)
  BY <1>1 DEF Truncate, TypeOK, HomeOf
<1>4. /\ NextRank' = NextRank
      /\ \A i \in Inodes : Size(i)' = IF i = path THEN 0 ELSE Size(i)
  BY <1>1, <1>2, <1>3 DEF Size, NextRank
<1>5. \A m \in 1 .. Len(home) : \A i \in Inodes : home[m] = HomeOf(i)' => i # path
  <2> SUFFICES ASSUME NEW m \in 1 .. Len(home), home[m] = <<path, epoch'[path]>> PROVE FALSE
    BY DEF HomeOf
  <2>1. home[m][1] = path /\ home[m][2] = epoch[path] + 1
    BY <1>2
  <2>2. home[m][2] =< epoch[path]
    BY <1>0, <2>1 DEF WriterInv
  <2> QED BY <1>2, <2>1, <2>2
<1>6. WriterInv'
  <2>1. \A m \in 1 .. Len(home) : home[m][2] =< epoch'[home[m][1]]
    <3> SUFFICES ASSUME NEW m \in 1 .. Len(home) PROVE home[m][2] =< epoch'[home[m][1]]
      OBVIOUS
    <3>1. home[m][1] \in 1 .. newest /\ home[m][2] =< epoch[home[m][1]]
      BY <1>0 DEF WriterInv
    <3>2. home[m][1] \in Inodes /\ home[m][2] \in Int
      <4>1. home \in Seq(Inodes \X Nat)
        BY DEF TypeOK
      <4>2. home[m] \in Inodes \X Nat
        BY <4>1, ElementOfSeq
      <4> QED BY <4>2
    <3>3. CASE home[m][1] = path
      <4>1. home[m][2] =< epoch[path] /\ epoch'[home[m][1]] = epoch'[path]
        BY <3>1, <3>3
      <4>2. home[m][2] \in Int
        BY <3>2
      <4> QED BY <1>2, <4>1, <4>2
    <3>4. CASE home[m][1] # path
      BY <1>3, <3>1, <3>2, <3>4
    <3> QED BY <3>3, <3>4
  <2>2. \A i \in Inodes : i > newest => files'[i] = <<>>
    BY <1>0, <1>2, <1>3 DEF WriterInv
  <2> QED BY <1>0, <1>1, <2>1, <2>2 DEF WriterInv
<1>7. UnitInv'
  <2> SUFFICES ASSUME NEW i \in Inodes, NEW k \in 1 .. Size(i)'
               PROVE  /\ files'[i][k][1] \in 1 .. Len(home)
                      /\ home[files'[i][k][1]] = HomeOf(i)'
                      /\ Rank(files'[i][k]) < NextRank'
                      /\ files'[i][k][2] = "head" =>
                           k < Size(i)' /\ files'[i][k + 1] = TailOf(files'[i][k][1])
    BY <1>1 DEF UnitInv
  <2>1. i # path
    BY <1>4
  <2> QED BY <1>0, <1>1, <1>3, <1>4, <2>1 DEF UnitInv
<1>8. RankInv'
  <2>1. ASSUME NEW i \in Inodes, NEW k \in 1 .. Size(i)', NEW j \in 1 .. k - 1
        PROVE  Rank(files'[i][j]) < Rank(files'[i][k])
    <3>1. i # path
      BY <1>4
    <3> QED BY <1>0, <1>3, <1>4, <3>1 DEF RankInv
  <2>2. ASSUME NEW i \in Inodes, NEW h \in 1 .. i - 1, NEW k \in 1 .. Size(i)', NEW j \in 1 .. Size(h)'
        PROVE  Rank(files'[h][j]) < Rank(files'[i][k])
    <3>1. i # path /\ h # path /\ h \in Inodes
      <4>1. h \in Inodes
        BY TailBoundAssumption DEF Inodes
      <4>2. i # path /\ h # path
        BY <1>4, <4>1
      <4> QED BY <4>1, <4>2
    <3> QED BY <1>0, <1>3, <1>4, <3>1 DEF RankInv
  <2> QED BY <2>1, <2>2 DEF RankInv
<1>9. HomeInv'
  <2> SUFFICES ASSUME NEW m \in 1 .. Len(home), NEW i \in Inodes, home[m] = HomeOf(i)'
               PROVE  \E k \in 1 .. Size(i)' : files'[i][k] = HeadOf(m)
    BY <1>1 DEF HomeInv
  <2>1. i # path
    BY <1>5
  <2> QED BY <1>0, <1>3, <1>4, <2>1 DEF HomeInv
<1> QED
  BY <1>6, <1>7, <1>8, <1>9 DEF DiskInv

(* No step of the reader touches the disk. *)
LEMMA DiskStep == TypeOK /\ DiskInv /\ [Next]_tailVars => DiskInv'
<1> SUFFICES ASSUME TypeOK, DiskInv, [Next]_tailVars PROVE DiskInv'
  OBVIOUS
<1>1. CASE World
  BY <1>1, HeadStep, TailStep, RollStep, TruncateStep DEF World
<1>2. CASE UNCHANGED disk
  BY <1>2 DEF disk, DiskInv, WriterInv, UnitInv, RankInv, HomeInv, HomeOf, NextRank, Size
<1>3. World \/ UNCHANGED disk
  BY DEF Next, Follow, OpenLog, Fill, TakeLine, HitEof, Poll, Fail, ReadFails, StatFails, tailVars
<1> QED
  BY <1>1, <1>2, <1>3

(* Both parts of a line are appended to the newest file, in their order. *)
LEMMA WriteLaw ==
    ASSUME TypeOK, DiskInv, WriteHead \/ WriteTail
    PROVE  /\ path \in Inodes /\ path = newest
           /\ UNCHANGED <<newest, path, epoch, reader, record>>
           /\ NextRank \in Int /\ NextRank' = NextRank + 1
           /\ \E u \in Units : Rank(u) = NextRank /\ files' = [files EXCEPT ![path] = Append(@, u)]
<1>1. nextLine \in Nat
  BY DEF TypeOK
<1>2. CASE WriteHead
  <2>1. /\ path \in Inodes /\ path = newest /\ nextLine \in Lines /\ HeadOf(nextLine) \in Units
        /\ files' = [files EXCEPT ![path] = Append(@, HeadOf(nextLine))]
    BY <1>2, HeadWritten DEF DiskInv
  <2>2. ~half /\ half' /\ nextLine' = nextLine /\ UNCHANGED <<newest, path, epoch, reader, record>>
    BY <1>2 DEF WriteHead
  <2>3. Rank(HeadOf(nextLine)) = NextRank /\ NextRank' = NextRank + 1 /\ NextRank \in Int
    BY <1>1, <2>1, <2>2, RankLaw DEF NextRank
  <2> QED BY <2>1, <2>2, <2>3
<1>3. CASE WriteTail
  <2>1. /\ half /\ ~half' /\ nextLine' = nextLine + 1
        /\ UNCHANGED <<newest, path, epoch, reader, record>>
    BY <1>3 DEF WriteTail
  <2>2. nextLine =< MaxLines /\ path # NoFile
    BY <2>1 DEF DiskInv, WriterInv
  <2>3. nextLine \in Lines /\ path \in Inodes /\ path = newest
    BY <1>1, <2>2, TailBoundAssumption DEF Lines, TypeOK
  <2>4. /\ TailOf(nextLine) \in Units /\ Rank(TailOf(nextLine)) = NextRank
        /\ NextRank' = NextRank + 1 /\ NextRank \in Int
    BY <1>1, <2>1, <2>3, RankLaw DEF NextRank
  <2>5. files' = [files EXCEPT ![path] = Append(@, TailOf(nextLine))]
    BY <1>3 DEF WriteTail, TailOf
  <2> QED BY <2>1, <2>3, <2>4, <2>5
<1> QED
  BY <1>2, <1>3

-----------------------------------------------------------------------------
(* The reader. *)

(* Where the reader may still come to in the files as they are, if no error
   makes it start over: to younger files, on in its own, or to the head of its
   own once the end is before its position. *)
Reach(i, k) ==
    \/ i > fd
    \/ i = fd /\ (k > pos \/ pos > Size(fd) \/ (phase = "closed" /\ path = fd))
Unread(u) == \E i \in Inodes : \E k \in 1 .. Size(i) : Reach(i, k) /\ files[i][k] = u
Held(u) == phase # "closed" /\ \E k \in 1 .. Len(ahead) : ahead[k] = u
Pending(u) == Held(u) \/ Unread(u)

(* The count of consumed units is behind the position by what the buffer holds
   and what it threw away. *)
PlaceInv ==
    /\ fd =< newest
    /\ offset + Len(ahead) =< pos
    /\ phase = "poll" => ahead = <<>>
    /\ ~started => phase = "closed" /\ seen = <<>> /\ skipped = {}
    /\ \A j \in 1 .. Len(seen) : seen[j] < nextLine
    /\ \A m \in skipped : m =< Len(home)

(* As long as the file was not truncated under the reader, the buffer holds
   what is before the position. *)
ViewInv == phase # "closed" =>
    /\ view =< epoch[fd]
    /\ epoch[fd] = view =>
         /\ pos =< Size(fd)
         /\ \A k \in 1 .. Len(ahead) : ahead[k] = files[fd][pos - Len(ahead) + k]

(* Whatever happened to the file, the buffer is in the order of writing, and
   what can still be read was written after it. *)
BufferInv == phase # "closed" =>
    \A k \in 1 .. Len(ahead) :
        /\ Rank(ahead[k]) < NextRank
        /\ \A j \in 1 .. k - 1 : Rank(ahead[j]) < Rank(ahead[k])
        /\ \A u \in Units : Unread(u) => Rank(ahead[k]) < Rank(u)

(* A reader that is not blind holds lines of the file it opened, each head
   followed by its tail. *)
ClearInv == phase # "closed" /\ ~blind =>
    \A k \in 1 .. Len(ahead) :
        /\ ahead[k][1] \in 1 .. Len(home) /\ home[ahead[k][1]] = <<fd, view>>
        /\ k < Len(ahead) /\ ahead[k][2] = "head" => ahead[k + 1] = TailOf(ahead[k][1])

ReadInv == PlaceInv /\ ViewInv /\ BufferInv /\ ClearInv

(* The reader at the start. *)
LEMMA ReadInit == Init => ReadInv
BY TailBoundAssumption DEF Init, ReadInv, PlaceInv, ViewInv, BufferInv, ClearInv

(* Only a write brings something to read that was not there. *)
LEMMA UnreadWorld ==
    ASSUME TypeOK, DiskInv, PlaceInv, World, NEW u \in Units, Unread(u)'
    PROVE  Unread(u) \/ (Rank(u) = NextRank /\ NextRank' = NextRank + 1)
<1>1. PICK i \in Inodes : \E k \in 1 .. Size(i)' : Reach(i, k)' /\ files'[i][k] = u
  BY DEF Unread
<1>2. PICK k \in 1 .. Size(i)' : Reach(i, k)' /\ files'[i][k] = u
  BY <1>1
<1>3. UNCHANGED <<fd, pos, phase>> /\ fd \in Inodes /\ pos \in Nat
  BY DEF World, WriteHead, WriteTail, RollAway, RollCreate, Truncate, reader, TypeOK
<1>4. \A h \in Inodes : Size(h) \in Nat
  BY FileLaw
<1>5. CASE WriteHead \/ WriteTail
  <2>1. path \in Inodes /\ path' = path /\ NextRank' = NextRank + 1
    BY <1>5, WriteLaw
  <2>2. PICK v \in Units : Rank(v) = NextRank /\ files' = [files EXCEPT ![path] = Append(@, v)]
    BY <1>5, WriteLaw
  <2>3. \A h \in Inodes : Size(h)' = Size(h) + (IF h = path THEN 1 ELSE 0)
    BY <2>1, <2>2, AppendLaw
  <2>4. \A h \in Inodes : \A j \in 1 .. Size(h)' :
          \/ j \in 1 .. Size(h) /\ files'[h][j] = files[h][j]
          \/ h = path /\ j = Size(path) + 1 /\ files'[h][j] = v
    BY <2>1, <2>2, AppendCases
  <2>5. CASE k \in 1 .. Size(i) /\ files'[i][k] = files[i][k]
    <3>1. Size(fd)' >= Size(fd) /\ Size(fd) \in Nat /\ Size(fd)' \in Nat
      BY <1>3, <1>4, <2>3
    <3>2. Reach(i, k)
      BY <1>2, <1>3, <2>1, <3>1 DEF Reach
    <3> QED BY <1>2, <2>5, <3>2 DEF Unread
  <2>6. CASE files'[i][k] = v
    BY <1>2, <2>1, <2>2, <2>6
  <2> QED BY <2>4, <2>5, <2>6
<1>6. CASE RollAway \/ RollCreate
  <2>1. files' = files /\ (path' = NoFile \/ path' = newest + 1)
    BY <1>6 DEF RollAway, RollCreate
  <2>5. path' # fd
    <3>1. fd >= 1 /\ fd =< newest /\ newest \in Int /\ fd \in Int
      BY <1>3, TailBoundAssumption DEF PlaceInv, TypeOK, Inodes
    <3> QED BY <2>1, <3>1 DEF NoFile
  <2>2. \A h : Len(files'[h]) = Len(files[h])
    BY <2>1
  <2>3. Reach(i, k)
    <3>1. \/ i > fd
          \/ i = fd /\ (k > pos \/ pos > Len(files'[fd]) \/ (phase = "closed" /\ path' = fd))
      BY <1>2, <1>3 DEF Reach, Size
    <3> QED BY <2>2, <2>5, <3>1 DEF Reach, Size
  <2>4. k \in 1 .. Size(i)
    BY <2>2 DEF Size
  <2> QED BY <1>2, <2>1, <2>3, <2>4 DEF Unread
<1>7. CASE Truncate
  <2>1. path \in Inodes /\ path' = path /\ files' = [files EXCEPT ![path] = <<>>]
    BY <1>7 DEF Truncate, TypeOK
  <2>2. \A h \in Inodes : Size(h)' = IF h = path THEN 0 ELSE Size(h)
    BY <2>1 DEF Size, TypeOK
  <2>3. i # path
    BY <2>2
  <2>4. files'[i] = files[i]
    BY <2>1, <2>3 DEF TypeOK
  <2>5. Size(i)' = Size(i)
    BY <2>2, <2>3
  <2>6. Reach(i, k)
    <3>1. \/ i > fd
          \/ i = fd /\ (k > pos \/ pos > Len(files'[fd]) \/ (phase = "closed" /\ path = fd))
      BY <1>2, <1>3, <2>1 DEF Reach, Size
    <3>2. i = fd => files'[fd] = files[fd]
      BY <2>4
    <3> QED BY <3>1, <3>2 DEF Reach, Size
  <2>7. k \in 1 .. Size(i)
    BY <2>5
  <2> QED BY <1>2, <2>4, <2>6, <2>7 DEF Unread
<1> QED
  BY <1>5, <1>6, <1>7 DEF World

(* Opening the log again, as the poll or a roll asks for, brings nothing to
   read that was not to be read before. *)
LEMMA UnreadFollow ==
    ASSUME TypeOK, DiskInv, PlaceInv, Follow, NEW u \in Units, Unread(u)'
    PROVE  Unread(u)
<1>1. PICK i \in Inodes : \E k \in 1 .. Size(i)' : Reach(i, k)' /\ files'[i][k] = u
  BY DEF Unread
<1>2. PICK k \in 1 .. Size(i)' : Reach(i, k)' /\ files'[i][k] = u
  BY <1>1
<1>3. UNCHANGED disk
  BY DEF Follow, OpenLog, Fill, TakeLine, HitEof, Poll
<1>4. files' = files /\ path' = path /\ \A h : Size(h)' = Size(h)
  BY <1>3 DEF disk, Size
<1>5. k \in 1 .. Size(i) /\ Size(i) \in Nat /\ fd \in Inodes /\ Size(fd) \in Nat /\ pos \in Nat
      /\ i \in Int /\ fd \in Int
  <2>1. k \in 1 .. Size(i)
    BY <1>4
  <2>2. fd \in Inodes /\ pos \in Nat
    BY DEF TypeOK
  <2> QED BY <2>1, <2>2, FileLaw, TailBoundAssumption DEF Inodes
<1>6. SUFFICES Reach(i, k)
  BY <1>2, <1>4, <1>5 DEF Unread
<1>11. \/ i > fd'
       \/ i = fd' /\ (k > pos' \/ pos' > Len(files[fd']) \/ (phase' = "closed" /\ path = fd'))
  BY <1>2, <1>4 DEF Reach, Size
<1>7. CASE OpenLog
  <2>1. fd' = path /\ path = newest /\ path \in Inodes /\ phase = "closed"
    BY <1>7 DEF OpenLog, TypeOK
  <2>2. fd =< path /\ path \in Int
    BY <2>1, TailBoundAssumption DEF PlaceInv, Inodes
  <2>3. i > path \/ i = path
    BY <1>11, <2>1
  <2>4. i > fd \/ (i = fd /\ path = fd)
    BY <1>5, <2>2, <2>3
  <2> QED BY <2>1, <2>4 DEF Reach
<1>8. CASE Fill
  <2>1. fd' = fd /\ phase' = "read" /\ phase = "read"
    BY <1>8 DEF Fill
  <2>2. PICK n \in 1 .. Size(fd) - pos : pos' = pos + n
    BY <1>8 DEF Fill
  <2>3. pos' =< Size(fd) /\ pos' > pos /\ pos' \in Int
    BY <1>5, <2>2
  <2>4. i > fd \/ (i = fd /\ k > pos')
    <3>1. ~(pos' > Len(files[fd]))
      BY <1>5, <2>3 DEF Size
    <3> QED BY <1>11, <2>1, <3>1
  <2>5. k > pos' => k > pos
    BY <1>5, <2>3
  <2> QED BY <2>4, <2>5 DEF Reach
<1>9. CASE TakeLine \/ HitEof
  <2>1. fd' = fd /\ pos' = pos /\ phase' # "closed"
    BY <1>9 DEF TakeLine, HitEof
  <2> QED BY <1>11, <2>1 DEF Reach, Size
<1>10. CASE Poll
  <2>1. fd' = fd /\ pos' = pos /\ (phase' = "closed" => Moved)
    BY <1>10 DEF Poll
  <2>3. ASSUME Moved, path = fd PROVE pos > Size(fd)
    <3>1. path # NoFile
      BY <1>5, <2>3 DEF NoFile, Inodes
    <3>2. offset > Size(fd)
      BY <2>3, <3>1 DEF Moved
    <3>3. offset =< pos /\ offset \in Int
      BY <1>5 DEF TypeOK
    <3> QED BY <1>5, <3>2, <3>3
  <2> QED BY <1>11, <2>1, <2>3 DEF Reach, Size
<1> QED
  BY <1>7, <1>8, <1>9, <1>10 DEF Follow

-----------------------------------------------------------------------------
(* Types. *)

(* What a fill adds to the buffer: a piece of the file from the position on. *)
LEMMA FillLaw ==
    ASSUME TypeOK, Fill
    PROVE  \E n \in 1 .. Size(fd) - pos :
              /\ pos' = pos + n
              /\ ahead' \in Seq(Units)
              /\ Len(ahead') = Len(ahead) + n
              /\ \A k \in 1 .. Len(ahead) : ahead'[k] = ahead[k]
              /\ \A k \in Len(ahead) + 1 .. Len(ahead) + n :
                   ahead'[k] = files[fd][pos + k - Len(ahead)]
<1>1. PICK n \in 1 .. Size(fd) - pos :
        ahead' = ahead \o SubSeq(files[fd], pos + 1, pos + n) /\ pos' = pos + n
  BY DEF Fill
<1> DEFINE s == SubSeq(files[fd], pos + 1, pos + n)
<1>2. files[fd] \in Seq(Units) /\ ahead \in Seq(Units) /\ pos \in Nat /\ Size(fd) \in Nat
      /\ Len(ahead) \in Nat
  BY FileLaw, LenProperties DEF TypeOK
<1>3. pos + 1 \in 1 .. Len(files[fd]) + 1 /\ pos + n \in pos .. Len(files[fd]) /\ n \in Nat
  BY <1>2 DEF Size
<1>4. \A k \in pos + 1 .. pos + n : k \in 1 .. Len(files[fd])
  BY <1>2, <1>3
<1>5. s \in Seq(Units)
  BY <1>2, <1>3, <1>4, SubSeqProperties
<1>6. Len(s) = n
  BY <1>2, <1>3, <1>4, SubSeqProperties
<1>7. \A k \in 1 .. n : s[k] = files[fd][pos + k]
  <2>1. \A k \in 1 .. pos + n - (pos + 1) + 1 : s[k] = files[fd][pos + 1 + k - 1]
    BY <1>2, <1>3, <1>4, SubSeqProperties
  <2> SUFFICES ASSUME NEW k \in 1 .. n PROVE s[k] = files[fd][pos + k]
    OBVIOUS
  <2>2. k \in 1 .. pos + n - (pos + 1) + 1 /\ pos + 1 + k - 1 = pos + k
    BY <1>2, <1>3
  <2> QED BY <2>1, <2>2
<1> HIDE DEF s
<1>8. ahead' = ahead \o s
  BY <1>1 DEF s
<1>9. /\ ahead' \in Seq(Units)
      /\ Len(ahead') = Len(ahead) + n
      /\ \A k \in 1 .. Len(ahead) + n :
           ahead'[k] = IF k <= Len(ahead) THEN ahead[k] ELSE s[k - Len(ahead)]
  BY <1>2, <1>5, <1>6, <1>8, ConcatProperties
<1>10. \A k \in 1 .. Len(ahead) : ahead'[k] = ahead[k]
  BY <1>2, <1>3, <1>9
<1>11. ASSUME NEW k \in Len(ahead) + 1 .. Len(ahead) + n
       PROVE  ahead'[k] = files[fd][pos + k - Len(ahead)]
  <2>1. k \in 1 .. Len(ahead) + n /\ ~(k <= Len(ahead)) /\ k - Len(ahead) \in 1 .. n
    BY <1>2, <1>3
  <2>2. ahead'[k] = files[fd][pos + (k - Len(ahead))]
    BY <1>7, <1>9, <2>1
  <2>3. pos + (k - Len(ahead)) = pos + k - Len(ahead)
    BY <1>2, <1>3
  <2> QED BY <2>2, <2>3
<1> QED
  BY <1>1, <1>9, <1>10, <1>11

(* What a line taken leaves in the buffer, and what it may be. *)
LEMMA TakeLaw ==
    ASSUME TypeOK, TakeLine
    PROVE  /\ LineEnd \in 1 .. Len(ahead) /\ Len(ahead) \in Nat
           /\ ahead' \in Seq(Units)
           /\ Len(ahead') = Len(ahead) - LineEnd
           /\ \A k \in 1 .. Len(ahead') : ahead'[k] = ahead[k + LineEnd]
           /\ \/ seen' = seen
              \/ /\ LineEnd = 2
                 /\ ahead[1] = HeadOf(ahead[2][1]) /\ ahead[2] = TailOf(ahead[2][1])
                 /\ ahead[2][1] \in Lines
                 /\ seen' = Append(seen, ahead[2][1])
           /\ \A n \in Lines : ahead[1] = HeadOf(n) /\ Len(ahead) >= 2 /\ ahead[2] = TailOf(n) =>
                LineEnd = 2 /\ seen' = Append(seen, n)
           /\ Len(ahead) >= 2 => ahead[2] \in Units
<1>1. ahead \in Seq(Units) /\ Len(ahead) \in Nat /\ DOMAIN ahead = 1 .. Len(ahead)
  BY LenProperties DEF TypeOK
<1>2. /\ LineEnd \in 1 .. Len(ahead)
      /\ IsTail(ahead[LineEnd])
      /\ \A j \in 1 .. LineEnd - 1 : ~IsTail(ahead[j])
  BY LineEndLaw DEF TakeLine
<1> DEFINE e == LineEnd
           n == ahead[e][1]
           s == SubSeq(ahead, 1, e)
<1>3. /\ ahead' = SubSeq(ahead, e + 1, Len(ahead))
      /\ seen' = IF s = <<HeadOf(n), TailOf(n)>> THEN Append(seen, n) ELSE seen
  BY DEF TakeLine, HeadOf, TailOf
<1>4. e \in 1 .. Len(ahead)
  BY <1>2
<1>5. ahead[e] \in Units /\ n \in Lines
  <2>1. ahead[e] \in Units
    BY <1>1, <1>4, ElementOfSeq
  <2> QED BY <2>1, RankLaw
<1> HIDE DEF e
<1>6. /\ ahead' \in Seq(Units)
      /\ Len(ahead') = Len(ahead) - e
      /\ \A k \in 1 .. Len(ahead) - e : ahead'[k] = ahead[k + e]
  <2>1. \A k \in e + 1 .. Len(ahead) : k \in 1 .. Len(ahead)
    BY <1>1, <1>4
  <2>2. e + 1 \in 1 .. Len(ahead) + 1 /\ Len(ahead) \in e + 1 - 1 .. Len(ahead) /\ e \in Int
    BY <1>1, <1>4
  <2>3. ahead' \in Seq(Units)
    BY <1>1, <1>3, <2>1, <2>2, SubSeqProperties
  <2>4. Len(ahead') = IF e + 1 <= Len(ahead) THEN Len(ahead) - (e + 1) + 1 ELSE 0
    BY <1>1, <1>3, <2>1, <2>2, SubSeqProperties
  <2>5. \A k \in 1 .. Len(ahead) - (e + 1) + 1 : ahead'[k] = ahead[e + 1 + k - 1]
    BY <1>1, <1>3, <2>1, <2>2, SubSeqProperties
  <2>6. Len(ahead') = Len(ahead) - e
    <3>1. e \in Int /\ Len(ahead) \in Int /\ e <= Len(ahead)
      BY <1>1, <1>4
    <3>2. CASE e + 1 <= Len(ahead)
      BY <2>4, <3>1, <3>2
    <3>3. CASE ~(e + 1 <= Len(ahead))
      <4>1. e = Len(ahead)
        BY <3>1, <3>3
      <4> QED BY <2>4, <3>1, <3>3, <4>1
    <3> QED BY <3>2, <3>3
  <2>7. ASSUME NEW k \in 1 .. Len(ahead) - e PROVE ahead'[k] = ahead[k + e]
    <3>1. k \in 1 .. Len(ahead) - (e + 1) + 1 /\ e + 1 + k - 1 = k + e
      BY <1>1, <1>4
    <3> QED BY <2>5, <3>1
  <2> QED BY <2>3, <2>6, <2>7
<1>7. /\ Len(s) = e
      /\ \A k \in 1 .. e : s[k] = ahead[k]
  <2>1. \A k \in 1 .. e : k \in 1 .. Len(ahead)
    BY <1>1, <1>4
  <2>2. 1 \in 1 .. Len(ahead) + 1 /\ e \in 0 .. Len(ahead) /\ e \in Int /\ 1 <= e
    BY <1>1, <1>4
  <2>3. Len(s) = IF 1 <= e THEN e - 1 + 1 ELSE 0
    BY <1>1, <2>1, <2>2, SubSeqProperties
  <2>4. \A k \in 1 .. e - 1 + 1 : s[k] = ahead[1 + k - 1]
    BY <1>1, <2>1, <2>2, SubSeqProperties
  <2>5. Len(s) = e
    BY <2>2, <2>3
  <2>6. ASSUME NEW k \in 1 .. e PROVE s[k] = ahead[k]
    <3>1. k \in 1 .. e - 1 + 1 /\ 1 + k - 1 = k
      BY <2>2
    <3> QED BY <2>4, <3>1
  <2> QED BY <2>5, <2>6
<1>8. ASSUME s = <<HeadOf(n), TailOf(n)>>
      PROVE  /\ e = 2
             /\ ahead[1] = HeadOf(ahead[2][1]) /\ ahead[2] = TailOf(ahead[2][1])
             /\ ahead[2][1] \in Lines
             /\ seen' = Append(seen, ahead[2][1])
  <2>1. e = 2
    BY <1>7, <1>8
  <2>4. s[1] = ahead[1] /\ s[2] = ahead[2]
    BY <1>7, <2>1
  <2>2. s[1] = HeadOf(n) /\ s[2] = TailOf(n) /\ s[1] = ahead[1] /\ s[2] = ahead[2]
    <3> HIDE DEF s, n
    <3> QED BY <1>8, <2>4
  <2>3. n = ahead[2][1]
    BY <2>1
  <2> QED BY <1>3, <1>5, <1>8, <2>1, <2>2, <2>3
<1>9. ASSUME NEW m \in Lines, ahead[1] = HeadOf(m), Len(ahead) >= 2, ahead[2] = TailOf(m)
      PROVE  e = 2 /\ seen' = Append(seen, m)
  <2>1. ~IsTail(ahead[1]) /\ IsTail(ahead[2])
    BY <1>9, RankLaw
  <2>2. e = 2
    <3>1. e # 1
      BY <1>2, <2>1 DEF e
    <3>2. ~(2 \in 1 .. e - 1)
      BY <1>2, <2>1 DEF e
    <3> QED BY <1>1, <1>4, <3>1, <3>2
  <2>3. n = m
    BY <1>9, <2>2 DEF TailOf
  <2>4. s = <<HeadOf(m), TailOf(m)>>
    <3> HIDE DEF s
    <3>1. s \in Seq(Units)
      BY <1>1, <1>4, SubSeqProperties DEF s
    <3>2. Len(s) = 2 /\ s[1] = HeadOf(m) /\ s[2] = TailOf(m)
      BY <1>7, <1>9, <2>2
    <3>3. <<HeadOf(m), TailOf(m)>> \in Seq(Units)
      BY RankLaw
    <3> QED BY <3>1, <3>2, <3>3, SeqEqual
  <2> QED BY <1>3, <2>2, <2>3, <2>4
<1>10. Len(ahead) >= 2 => ahead[2] \in Units
  BY <1>1, ElementOfSeq
<1> QED
  BY <1>1, <1>2, <1>3, <1>6, <1>8, <1>9, <1>10 DEF e

(* Every step keeps the types: those of the disk, those of the reader, those
   of what is remembered. *)
DiskTypes ==
    /\ files \in [Inodes -> Seq(Units)]
    /\ newest \in Inodes
    /\ path \in {newest, NoFile}
    /\ nextLine \in 1 .. MaxLines + 1
    /\ half \in BOOLEAN
    /\ epoch \in [Inodes -> 0 .. MaxTruncations]
    /\ home \in Seq(Inodes \X Nat)

ReaderTypes ==
    /\ phase \in {"closed", "read", "poll"}
    /\ fd \in Inodes
    /\ pos \in Nat
    /\ ahead \in Seq(Units)
    /\ offset \in 0 .. pos
    /\ started \in BOOLEAN
    /\ view \in Nat

RecordTypes ==
    /\ skipped \subseteq Lines
    /\ seen \in Seq(Lines)
    /\ torn \subseteq Lines
    /\ blind \in BOOLEAN
    /\ faults \in 0 .. MaxFaults

(* The three groups are all the types. *)
LEMMA TypesAre == TypeOK <=> DiskTypes /\ ReaderTypes /\ RecordTypes
BY DEF TypeOK, DiskTypes, ReaderTypes, RecordTypes

(* A write, a roll and a truncation keep the types of the disk. *)
LEMMA DiskTypesStep ==
    ASSUME TypeOK, DiskInv, World
    PROVE  DiskTypes'
<1>1. nextLine \in Nat /\ nextLine \in Int /\ newest \in Int
  BY TailBoundAssumption DEF TypeOK, Inodes
<1>2. CASE WriteHead
  <2>1. home' \in Seq(Inodes \X Nat)
    BY <1>2, HeadWritten DEF DiskInv
  <2>2. path \in Inodes /\ \E u \in Units : files' = [files EXCEPT ![path] = Append(@, u)]
    BY <1>2, WriteLaw
  <2>3. files' \in [Inodes -> Seq(Units)]
    BY <2>2, AppendLaw
  <2> QED BY <1>2, <2>1, <2>3 DEF WriteHead, TypeOK, DiskTypes
<1>3. CASE WriteTail
  <2>1. nextLine' = nextLine + 1 /\ half /\ half' = FALSE /\ UNCHANGED <<newest, path, epoch, home>>
    BY <1>3 DEF WriteTail
  <2>2. path \in Inodes /\ \E u \in Units : files' = [files EXCEPT ![path] = Append(@, u)]
    BY <1>3, WriteLaw
  <2>3. files' \in [Inodes -> Seq(Units)]
    BY <2>2, AppendLaw
  <2>4. nextLine =< MaxLines
    BY <2>1 DEF DiskInv, WriterInv
  <2>5. nextLine' \in 1 .. MaxLines + 1
    BY <1>1, <2>1, <2>4, TailBoundAssumption
  <2> QED BY <2>1, <2>3, <2>5 DEF TypeOK, DiskTypes
<1>4. CASE RollAway
  BY <1>4 DEF RollAway, TypeOK, DiskTypes
<1>5. CASE RollCreate
  <2>1. newest' = newest + 1 /\ path' = newest + 1 /\ newest < MaxFiles
    BY <1>5 DEF RollCreate, DiskInv, WriterInv
  <2>2. newest' \in Inodes
    BY <2>1, TailBoundAssumption DEF TypeOK, Inodes
  <2> QED BY <1>5, <2>1, <2>2 DEF RollCreate, TypeOK, DiskTypes
<1>6. CASE Truncate
  <2>1. path \in Inodes
    BY <1>6 DEF Truncate, TypeOK
  <2>2. files' \in [Inodes -> Seq(Units)]
    BY <1>6, <2>1 DEF Truncate, TypeOK
  <2>3. epoch[path] \in 0 .. MaxTruncations /\ epoch[path] < MaxTruncations
    BY <1>6, <2>1 DEF Truncate, TypeOK
  <2>4. epoch[path] + 1 \in 0 .. MaxTruncations
    BY <2>3, TailBoundAssumption
  <2>5. epoch' \in [Inodes -> 0 .. MaxTruncations]
    BY <1>6, <2>1, <2>4 DEF Truncate, TypeOK
  <2> QED BY <1>6, <2>2, <2>5 DEF Truncate, TypeOK, DiskTypes
<1> QED
  BY <1>2, <1>3, <1>4, <1>5, <1>6 DEF World

(* Opening, reading, polling and failing keep the types of the reader and of
   what is remembered. *)
LEMMA ReaderTypesStep ==
    ASSUME TypeOK, DiskInv, PlaceInv, Follow \/ Fail
    PROVE  ReaderTypes' /\ RecordTypes'
<1>1. pos \in Nat /\ offset \in Nat /\ offset =< pos /\ Len(ahead) \in Nat /\ ahead \in Seq(Units)
      /\ faults \in Nat /\ faults =< MaxFaults /\ seen \in Seq(Lines)
  BY LenProperties DEF TypeOK
<1>2. CASE OpenLog
  <2>1. path \in Inodes
    BY <1>2 DEF OpenLog, TypeOK
  <2>2. Size(path) \in Nat /\ epoch[path] \in Nat
    BY <2>1, FileLaw, TailBoundAssumption DEF TypeOK
  <2>3. pos' \in Nat
    BY <1>2, <2>2 DEF OpenLog
  <2>4. Len(home) =< MaxLines
    <3>1. nextLine \in 1 .. MaxLines + 1
      BY DEF TypeOK
    <3>2. Len(home) = (IF half THEN nextLine ELSE nextLine - 1) /\ (half => nextLine =< MaxLines)
      BY DEF DiskInv, WriterInv
    <3> QED BY <3>1, <3>2, TailBoundAssumption
  <2>5. Len(home) \in Nat
    BY LenProperties DEF TypeOK
  <2>6. 1 .. Len(home) \subseteq Lines
    BY <2>4, <2>5, TailBoundAssumption DEF Lines
  <2>7. skipped' \subseteq Lines
    BY <1>2, <2>6 DEF OpenLog, TypeOK
  <2>8. offset' \in 0 .. pos'
    BY <1>2, <2>3 DEF OpenLog
  <2>9. ahead' \in Seq(Units)
    BY <1>2 DEF OpenLog
  <2> QED BY <1>2, <2>1, <2>2, <2>3, <2>7, <2>8, <2>9 DEF OpenLog, TypeOK, ReaderTypes, RecordTypes
<1>3. CASE Fill
  <2>1. PICK n \in 1 .. Size(fd) - pos : pos' = pos + n /\ ahead' \in Seq(Units)
    BY <1>3, FillLaw
  <2>2. Size(fd) \in Nat
    BY FileLaw DEF TypeOK
  <2>3. pos' \in Nat /\ offset \in 0 .. pos'
    BY <1>1, <2>1, <2>2
  <2>4. blind' \in BOOLEAN
    BY <1>3 DEF Fill, TypeOK
  <2> QED BY <1>3, <2>1, <2>3, <2>4 DEF Fill, TypeOK, ReaderTypes, RecordTypes
<1>4. CASE TakeLine
  <2>1. LineEnd \in 1 .. Len(ahead) /\ ahead' \in Seq(Units)
    BY <1>4, TakeLaw
  <2>2. offset' = offset + LineEnd /\ offset + Len(ahead) =< pos
    BY <1>4 DEF TakeLine, PlaceInv
  <2>3. offset' \in 0 .. pos
    BY <1>1, <2>1, <2>2
  <2>4. seen' \in Seq(Lines)
    <3>1. seen' = seen \/ (ahead[2][1] \in Lines /\ seen' = Append(seen, ahead[2][1]))
      BY <1>4, TakeLaw
    <3>2. seen \in Seq(Lines)
      BY DEF TypeOK
    <3>3. \A n \in Lines : Append(seen, n) \in Seq(Lines)
      BY <3>2
    <3> QED BY <3>1, <3>2, <3>3
  <2> QED BY <1>4, <2>1, <2>3, <2>4 DEF TakeLine, TypeOK, ReaderTypes, RecordTypes
<1>5. CASE HitEof
  <2>1. \A i \in DOMAIN ahead : ahead[i][1] \in Lines
    <3>1. \A i \in DOMAIN ahead : ahead[i] \in Units
      BY <1>1, ElementOfSeq, LenProperties
    <3> QED BY <3>1, RankLaw
  <2>2. torn' \subseteq Lines
    BY <1>5, <2>1 DEF HitEof, TypeOK
  <2>3. ahead' \in Seq(Units)
    BY <1>5 DEF HitEof
  <2> QED BY <1>5, <2>2, <2>3 DEF HitEof, TypeOK, ReaderTypes, RecordTypes
<1>6. CASE Poll
  <2>1. phase' \in {"closed", "read", "poll"}
    BY <1>6 DEF Poll
  <2>2. blind' \in BOOLEAN
    BY <1>6 DEF Poll, TypeOK
  <2> QED BY <1>6, <2>1, <2>2 DEF Poll, TypeOK, ReaderTypes, RecordTypes
<1>7. CASE Fail
  <2>1. faults' = faults + 1 /\ faults < MaxFaults
    BY <1>7 DEF Fail, ReadFails, StatFails
  <2>2. faults' \in 0 .. MaxFaults
    BY <1>1, <2>1, TailBoundAssumption
  <2> QED BY <1>7, <2>2 DEF Fail, ReadFails, StatFails, TypeOK, ReaderTypes, RecordTypes
<1> QED
  BY <1>2, <1>3, <1>4, <1>5, <1>6, <1>7 DEF Follow

(* The world outside leaves the reader and what is remembered alone, the reader
   the disk. *)
LEMMA StepsApart ==
    /\ World => UNCHANGED <<reader, record>>
    /\ Follow \/ Fail => UNCHANGED disk
BY DEF World, WriteHead, WriteTail, RollAway, RollCreate, Truncate,
       Follow, OpenLog, Fill, TakeLine, HitEof, Poll, Fail, ReadFails, StatFails

(* No step leaves the types. *)
LEMMA TypeStep == TypeOK /\ DiskInv /\ PlaceInv /\ [Next]_tailVars => TypeOK'
<1> SUFFICES ASSUME TypeOK, DiskInv, PlaceInv, [Next]_tailVars PROVE TypeOK'
  OBVIOUS
<1>1. CASE World
  <2>1. DiskTypes'
    BY <1>1, DiskTypesStep
  <2>2. ReaderTypes' /\ RecordTypes'
    BY <1>1, StepsApart, TypesAre DEF reader, record, ReaderTypes, RecordTypes
  <2> QED BY <2>1, <2>2, TypesAre DEF TypeOK, DiskTypes, ReaderTypes, RecordTypes
<1>2. CASE Follow \/ Fail
  <2>1. DiskTypes'
    BY <1>2, StepsApart, TypesAre DEF disk, DiskTypes
  <2>2. ReaderTypes' /\ RecordTypes'
    BY <1>2, ReaderTypesStep
  <2> QED BY <2>1, <2>2 DEF TypeOK, DiskTypes, ReaderTypes, RecordTypes
<1>3. CASE UNCHANGED tailVars
  BY <1>3 DEF tailVars, disk, reader, record, TypeOK
<1> QED
  BY <1>1, <1>2, <1>3 DEF Next

-----------------------------------------------------------------------------
(* The reader's invariant, step by step. *)

(* The world only adds: to a file that is not truncated, to the homes, to the
   count of what was written. *)
LEMMA WorldLaw ==
    ASSUME TypeOK, DiskInv, World
    PROVE  /\ newest' >= newest /\ nextLine' >= nextLine /\ NextRank' >= NextRank
           /\ NextRank \in Int /\ NextRank' \in Int
           /\ Len(home) \in Nat /\ Len(home') \in Nat /\ Len(home') >= Len(home)
           /\ \A m \in 1 .. Len(home) : home'[m] = home[m]
           /\ \A i \in Inodes : epoch[i] \in Nat /\ epoch'[i] \in Nat /\ epoch'[i] >= epoch[i]
           /\ \A i \in Inodes : epoch'[i] = epoch[i] =>
                /\ Len(files'[i]) \in Nat /\ Len(files'[i]) >= Len(files[i])
                /\ \A k \in 1 .. Len(files[i]) : files'[i][k] = files[i][k]
<1>1. nextLine \in Nat /\ newest \in Int /\ (\A i \in Inodes : epoch[i] \in Nat) /\ Len(home) \in Nat
  BY TailBoundAssumption, LenProperties DEF TypeOK, Inodes
<1>2. \A i \in Inodes : Len(files[i]) \in Nat
  BY FileLaw DEF Size
<1>3. NextRank \in Int
  BY <1>1 DEF NextRank
<1>4. CASE WriteHead \/ WriteTail
  <2>1. path \in Inodes /\ newest' = newest /\ epoch' = epoch /\ NextRank' = NextRank + 1
    BY <1>4, WriteLaw
  <2>2. \A i \in Inodes :
          /\ Len(files'[i]) = Len(files[i]) + (IF i = path THEN 1 ELSE 0)
          /\ \A k \in 1 .. Len(files[i]) : files'[i][k] = files[i][k]
    <3>1. PICK u \in Units : files' = [files EXCEPT ![path] = Append(@, u)]
      BY <1>4, WriteLaw
    <3> QED BY <2>1, <3>1, AppendLaw DEF Size
  <2>3. nextLine' >= nextLine
    BY <1>1, <1>4 DEF WriteHead, WriteTail
  <2>4. Len(home') \in Nat /\ Len(home') >= Len(home) /\ \A m \in 1 .. Len(home) : home'[m] = home[m]
    <3>1. CASE WriteHead
      BY <1>1, <3>1, HeadWritten DEF DiskInv
    <3>2. CASE WriteTail
      BY <1>1, <3>2 DEF WriteTail
    <3> QED BY <1>4, <3>1, <3>2
  <2>5. ASSUME NEW i \in Inodes PROVE Len(files'[i]) \in Nat /\ Len(files'[i]) >= Len(files[i])
    <3> DEFINE a == Len(files[i])
               b == Len(files'[i])
    <3>1. a \in Nat /\ (b = a \/ b = a + 1)
      <4>1. Len(files'[i]) = Len(files[i]) + (IF i = path THEN 1 ELSE 0) /\ Len(files[i]) \in Nat
        BY <1>2, <2>2
      <4>2. CASE i = path
        BY <4>1, <4>2
      <4>3. CASE i # path
        BY <4>1, <4>3
      <4> QED BY <4>2, <4>3
    <3> HIDE DEF a, b
    <3>2. b \in Nat /\ b >= a
      BY <3>1
    <3> QED BY <3>2 DEF a, b
  <2>6. NextRank' \in Int /\ NextRank' >= NextRank
    BY <1>3, <2>1
  <2>7. \A i \in Inodes : \A k \in 1 .. Len(files[i]) : files'[i][k] = files[i][k]
    BY <2>2
  <2>8. newest' >= newest /\ \A i \in Inodes : epoch'[i] \in Nat /\ epoch'[i] >= epoch[i]
    BY <1>1, <2>1
  <2> QED BY <1>1, <1>3, <2>3, <2>4, <2>5, <2>6, <2>7, <2>8
<1>5. CASE RollAway \/ RollCreate
  <2>1. newest' >= newest /\ UNCHANGED <<files, nextLine, half, epoch, home>>
    BY <1>1, <1>5 DEF RollAway, RollCreate
  <2>2. NextRank' = NextRank
    BY <2>1 DEF NextRank
  <2> QED BY <1>1, <1>2, <1>3, <2>1, <2>2
<1>6. CASE Truncate
  <2>1. path \in Inodes /\ UNCHANGED <<newest, nextLine, half, home>>
        /\ files' = [files EXCEPT ![path] = <<>>] /\ epoch' = [epoch EXCEPT ![path] = @ + 1]
    BY <1>6 DEF Truncate, TypeOK
  <2>2. NextRank' = NextRank
    BY <2>1 DEF NextRank
  <2>3. \A i \in Inodes : epoch'[i] = epoch[i] + (IF i = path THEN 1 ELSE 0)
    <3>1. epoch \in [Inodes -> 0 .. MaxTruncations] /\ \A i \in Inodes : epoch[i] \in Int
      BY DEF TypeOK
    <3>2. \A i \in Inodes : epoch'[i] = IF i = path THEN epoch[path] + 1 ELSE epoch[i]
      BY <2>1, <3>1
    <3> QED BY <3>1, <3>2
  <2>4. \A i \in Inodes \ {path} : files'[i] = files[i]
    BY <2>1 DEF TypeOK
  <2>5. \A i \in Inodes : epoch'[i] = epoch[i] => i # path
    BY <1>1, <2>3
  <2>6. \A i \in Inodes : epoch'[i] \in Nat /\ epoch'[i] >= epoch[i]
    BY <1>1, <2>3
  <2> QED BY <1>1, <1>2, <1>3, <2>1, <2>2, <2>4, <2>5, <2>6
<1> QED
  BY <1>4, <1>5, <1>6 DEF World

(* A fill moves the position by what it adds to the buffer, a line taken the
   count by what it takes from it; and only what was written is processed. *)
LEMMA PlaceStep ==
    ASSUME TypeOK, DiskInv, ReadInv, [Next]_tailVars
    PROVE  PlaceInv'
<1>0. PlaceInv /\ BufferInv
  BY DEF ReadInv
<1>1. /\ pos \in Nat /\ offset \in Nat /\ offset =< pos /\ Len(ahead) \in Nat /\ ahead \in Seq(Units)
      /\ seen \in Seq(Lines) /\ fd \in Int /\ newest \in Int /\ nextLine \in Int /\ Len(seen) \in Nat
      /\ Len(home) \in Nat /\ \A j \in 1 .. Len(seen) : seen[j] \in Lines
  BY TailBoundAssumption, LenProperties, ElementOfSeq DEF TypeOK, Inodes
<1>2. CASE World
  <2>1. UNCHANGED <<reader, record>>
    BY <1>2, StepsApart
  <2>2. newest' >= newest /\ nextLine' >= nextLine /\ Len(home') \in Nat /\ Len(home') >= Len(home)
    BY <1>2, WorldLaw
  <2>3. newest' \in Int /\ nextLine' \in Int
    BY <1>2, DiskTypesStep, TailBoundAssumption DEF DiskTypes, Inodes
  <2>4. fd =< newest'
    BY <1>0, <1>1, <2>2, <2>3 DEF PlaceInv
  <2>5. \A j \in 1 .. Len(seen) : seen[j] < nextLine'
    <3>1. \A j \in 1 .. Len(seen) : seen[j] < nextLine /\ seen[j] \in Int
      BY <1>0, <1>1 DEF PlaceInv, Lines
    <3> QED BY <1>1, <2>2, <2>3, <3>1
  <2>6. \A m \in skipped : m =< Len(home')
    <3>1. \A m \in skipped : m =< Len(home) /\ m \in Int
      BY <1>0 DEF PlaceInv, TypeOK, Lines
    <3> QED BY <1>1, <2>2, <3>1
  <2> QED BY <1>0, <2>1, <2>4, <2>5, <2>6 DEF PlaceInv, reader, record
<1>3. CASE OpenLog
  <2>1. fd' = path /\ path = newest /\ path \in Inodes /\ UNCHANGED <<disk, seen>>
    BY <1>3 DEF OpenLog, TypeOK
  <2>2. offset' = 0 /\ ahead' = <<>> /\ phase' = "read" /\ started' = TRUE
        /\ pos' = (IF started THEN 0 ELSE Size(path))
        /\ skipped' \subseteq skipped \cup (1 .. Len(home))
    BY <1>3 DEF OpenLog
  <2>3. Size(path) \in Nat
    BY <2>1, FileLaw
  <2>4. offset' + Len(ahead') =< pos'
    BY <2>2, <2>3
  <2>5. \A m \in skipped' : m =< Len(home)
    BY <1>0, <1>1, <2>2 DEF PlaceInv
  <2> QED BY <1>0, <1>1, <2>1, <2>2, <2>4, <2>5 DEF PlaceInv, disk
<1>4. CASE Fill
  <2>1. PICK n \in 1 .. Size(fd) - pos : pos' = pos + n /\ Len(ahead') = Len(ahead) + n
    BY <1>4, FillLaw
  <2>2. Size(fd) \in Nat /\ offset + Len(ahead) =< pos
    BY <1>0, FileLaw DEF TypeOK, PlaceInv
  <2>3. offset + Len(ahead') =< pos'
    BY <1>1, <2>1, <2>2
  <2> QED BY <1>0, <1>4, <2>3 DEF PlaceInv, Fill, disk
<1>5. CASE TakeLine
  <2>1. LineEnd \in 1 .. Len(ahead) /\ Len(ahead') = Len(ahead) - LineEnd /\ offset' = offset + LineEnd
    BY <1>5, TakeLaw DEF TakeLine
  <2>2. offset' + Len(ahead') =< pos
    BY <1>0, <1>1, <2>1 DEF PlaceInv
  <2>3. started /\ phase = "read" /\ UNCHANGED <<phase, fd, pos, started, skipped, newest, nextLine, home>>
    BY <1>0, <1>5 DEF PlaceInv, TakeLine, disk
  <2>4. \A j \in 1 .. Len(seen') : seen'[j] < nextLine
    <3>1. CASE seen' = seen
      BY <1>0, <3>1 DEF PlaceInv
    <3>2. CASE /\ LineEnd = 2 /\ ahead[2][1] \in Lines /\ ahead[2] = TailOf(ahead[2][1])
               /\ seen' = Append(seen, ahead[2][1])
      <4>1. Rank(ahead[2]) < NextRank
        BY <1>0, <2>1, <2>3, <3>2 DEF BufferInv
      <4>2. Rank(ahead[2]) = 2 * ahead[2][1] + 1 /\ ahead[2][1] \in Int
        BY <3>2, RankLaw DEF Lines
      <4>3. ahead[2][1] < nextLine
        BY <1>1, <4>1, <4>2 DEF NextRank
      <4>4. /\ Len(seen') = Len(seen) + 1
            /\ \A j \in 1 .. Len(seen) : seen'[j] = seen[j]
            /\ seen'[Len(seen) + 1] = ahead[2][1]
        BY <1>1, <3>2, AppendProperties
      <4> QED BY <1>0, <1>1, <4>3, <4>4 DEF PlaceInv
    <3> QED BY <1>5, <3>1, <3>2, TakeLaw
  <2> QED BY <1>0, <2>2, <2>3, <2>4 DEF PlaceInv
<1>6. CASE HitEof
  BY <1>0, <1>1, <1>6 DEF HitEof, PlaceInv, disk
<1>7. CASE Poll
  BY <1>0, <1>7 DEF Poll, PlaceInv, disk
<1>8. CASE Fail
  BY <1>0, <1>8 DEF Fail, ReadFails, StatFails, PlaceInv, disk
<1>9. CASE UNCHANGED tailVars
  BY <1>0, <1>9 DEF tailVars, disk, reader, record, PlaceInv
<1> QED
  BY <1>2, <1>3, <1>4, <1>5, <1>6, <1>7, <1>8, <1>9 DEF Next, Follow

(* As long as the epoch of the open file is the one it was opened in, writes
   change nothing before the position, and fills and lines keep the buffer just
   before it. *)
LEMMA ViewStep ==
    ASSUME TypeOK, DiskInv, ReadInv, [Next]_tailVars
    PROVE  ViewInv'
<1>0. PlaceInv /\ ViewInv
  BY DEF ReadInv
<1>1. /\ pos \in Nat /\ offset \in Nat /\ Len(ahead) \in Nat /\ offset + Len(ahead) =< pos
      /\ fd \in Inodes /\ view \in Nat /\ epoch[fd] \in Nat
  BY <1>0, TailBoundAssumption, LenProperties DEF TypeOK, PlaceInv
<1>2. Size(fd) \in Nat /\ Size(fd) = Len(files[fd])
  BY <1>1, FileLaw DEF Size
<1>3. CASE World
  <2>1. UNCHANGED <<reader, record>>
    BY <1>3, StepsApart
  <2>2. UNCHANGED <<phase, fd, pos, ahead, view>>
    BY <2>1 DEF reader
  <2>3. epoch'[fd] \in Nat /\ epoch'[fd] >= epoch[fd]
    BY <1>1, <1>3, WorldLaw
  <2>4. ASSUME phase # "closed" PROVE view =< epoch'[fd]
    BY <1>0, <1>1, <2>3, <2>4 DEF ViewInv
  <2>5. ASSUME phase # "closed", epoch'[fd] = view
        PROVE  /\ pos =< Len(files'[fd])
               /\ \A k \in 1 .. Len(ahead) : ahead[k] = files'[fd][pos - Len(ahead) + k]
    <3>1. epoch[fd] = view
      BY <1>0, <1>1, <2>3, <2>5 DEF ViewInv
    <3>2. /\ Len(files'[fd]) \in Nat /\ Len(files'[fd]) >= Len(files[fd])
          /\ \A k \in 1 .. Len(files[fd]) : files'[fd][k] = files[fd][k]
      BY <1>1, <1>3, <2>5, <3>1, WorldLaw
    <3>3. pos =< Len(files[fd]) /\ \A k \in 1 .. Len(ahead) : ahead[k] = files[fd][pos - Len(ahead) + k]
      BY <1>0, <1>2, <2>5, <3>1 DEF ViewInv
    <3>4. \A k \in 1 .. Len(ahead) : pos - Len(ahead) + k \in 1 .. Len(files[fd])
      BY <1>1, <1>2, <3>3
    <3>5. pos =< Len(files'[fd])
      BY <1>1, <1>2, <3>2, <3>3
    <3> QED BY <3>2, <3>3, <3>4, <3>5
  <2> QED BY <2>2, <2>4, <2>5 DEF ViewInv, Size
<1>4. CASE OpenLog
  <2>1. fd' = path /\ view' = epoch[path] /\ ahead' = <<>> /\ path \in Inodes /\ UNCHANGED <<files, epoch>>
        /\ pos' = (IF started THEN 0 ELSE Size(path))
    BY <1>4 DEF OpenLog, TypeOK, disk
  <2>2. Size(path) \in Nat /\ epoch[path] \in Nat
    BY <2>1, FileLaw, TailBoundAssumption DEF TypeOK
  <2>3. pos' =< Len(files[path])
    BY <2>1, <2>2 DEF Size
  <2>4. Len(ahead') = 0
    BY <2>1
  <2> QED BY <2>1, <2>2, <2>3, <2>4 DEF ViewInv, Size
<1>5. CASE Fill
  <2>1. PICK n \in 1 .. Size(fd) - pos :
          /\ pos' = pos + n
          /\ Len(ahead') = Len(ahead) + n
          /\ \A k \in 1 .. Len(ahead) : ahead'[k] = ahead[k]
          /\ \A k \in Len(ahead) + 1 .. Len(ahead) + n : ahead'[k] = files[fd][pos + k - Len(ahead)]
    BY <1>5, FillLaw
  <2>2. UNCHANGED <<phase, fd, view, files, epoch>> /\ phase # "closed"
    BY <1>5 DEF Fill, disk
  <2>3. pos' =< Len(files[fd])
    BY <1>1, <1>2, <2>1
  <2>4. ASSUME epoch[fd] = view, NEW k \in 1 .. Len(ahead')
        PROVE  ahead'[k] = files[fd][pos' - Len(ahead') + k]
    <3>1. pos' - Len(ahead') + k = pos - Len(ahead) + k /\ pos + k - Len(ahead) = pos - Len(ahead) + k
      BY <1>1, <1>2, <2>1
    <3>2. k \in 1 .. Len(ahead) \/ k \in Len(ahead) + 1 .. Len(ahead) + n
      BY <1>1, <1>2, <2>1
    <3>3. k \in 1 .. Len(ahead) => ahead[k] = files[fd][pos - Len(ahead) + k]
      BY <1>0, <2>2, <2>4 DEF ViewInv
    <3>4. CASE k \in 1 .. Len(ahead)
      BY <2>1, <3>1, <3>3, <3>4
    <3>5. CASE k \in Len(ahead) + 1 .. Len(ahead) + n
      <4>1. ahead'[k] = files[fd][pos + k - Len(ahead)]
        BY <2>1, <3>5
      <4> QED BY <3>1, <4>1
    <3> QED BY <3>2, <3>4, <3>5
  <2> QED BY <1>0, <2>2, <2>3, <2>4 DEF ViewInv, Size
<1>6. CASE TakeLine
  <2>1. /\ LineEnd \in 1 .. Len(ahead)
        /\ Len(ahead') = Len(ahead) - LineEnd
        /\ \A k \in 1 .. Len(ahead') : ahead'[k] = ahead[k + LineEnd]
    BY <1>6, TakeLaw
  <2>2. UNCHANGED <<phase, fd, pos, view, files, epoch>> /\ phase # "closed"
    BY <1>6 DEF TakeLine, disk
  <2>3. ASSUME epoch[fd] = view, NEW k \in 1 .. Len(ahead')
        PROVE  ahead'[k] = files[fd][pos - Len(ahead') + k]
    <3>1. k + LineEnd \in 1 .. Len(ahead)
          /\ pos - Len(ahead') + k = pos - Len(ahead) + (k + LineEnd)
      BY <1>1, <2>1
    <3>2. ahead[k + LineEnd] = files[fd][pos - Len(ahead) + (k + LineEnd)]
      BY <1>0, <2>2, <2>3, <3>1 DEF ViewInv
    <3> QED BY <2>1, <3>1, <3>2
  <2> QED BY <1>0, <2>2, <2>3 DEF ViewInv, Size
<1>7. CASE HitEof
  BY <1>0, <1>7 DEF HitEof, ViewInv, disk, Size
<1>8. CASE Poll
  BY <1>0, <1>8 DEF Poll, ViewInv, disk, Size
<1>9. CASE Fail
  BY <1>9 DEF Fail, ReadFails, StatFails, ViewInv
<1>10. CASE UNCHANGED tailVars
  BY <1>0, <1>10 DEF tailVars, disk, reader, record, ViewInv, Size
<1> QED
  BY <1>3, <1>4, <1>5, <1>6, <1>7, <1>8, <1>9, <1>10 DEF Next, Follow

(* What the file still holds past the position is unread; what it holds up to
   the new position comes before all that stays unread after a fill. *)
LEMMA FillUnread ==
    ASSUME TypeOK, DiskInv, ReadInv, Fill
    PROVE  /\ \A p \in pos + 1 .. Size(fd) : files[fd][p] \in Units /\ Unread(files[fd][p])
           /\ \A u \in Units : Unread(u)' =>
                \A p \in 1 .. Size(fd) : p =< pos' => Rank(files[fd][p]) < Rank(u)
<1>1. fd \in Inodes /\ pos \in Nat /\ Size(fd) \in Nat /\ fd \in Int
      /\ \A p \in 1 .. Size(fd) : files[fd][p] \in Units
  <2>1. fd \in Inodes /\ pos \in Nat
    BY DEF TypeOK
  <2>2. fd \in Int
    BY <2>1 DEF Inodes
  <2>3. Size(fd) \in Nat /\ \A p \in 1 .. Size(fd) : files[fd][p] \in Units
    BY <2>1, FileLaw
  <2> QED BY <2>1, <2>2, <2>3
<1>2. ASSUME NEW p \in pos + 1 .. Size(fd)
      PROVE  files[fd][p] \in Units /\ Unread(files[fd][p])
  <2>1. p \in 1 .. Size(fd) /\ p > pos
    BY <1>1
  <2>2. Reach(fd, p)
    BY <2>1 DEF Reach
  <2> QED BY <1>1, <2>1, <2>2 DEF Unread
<1>3. ASSUME NEW u \in Units, Unread(u)', NEW p \in 1 .. Size(fd), p =< pos'
      PROVE  Rank(files[fd][p]) < Rank(u)
  <2>1. PICK n \in 1 .. Size(fd) - pos : pos' = pos + n
    BY DEF Fill
  <2>2. pos' =< Size(fd) /\ pos' \in Int
    BY <1>1, <2>1
  <2>3. files' = files /\ fd' = fd /\ phase' # "closed"
    BY DEF Fill, disk
  <2>4. PICK i \in Inodes : \E k \in 1 .. Size(i)' : Reach(i, k)' /\ files'[i][k] = u
    BY <1>3 DEF Unread
  <2>5. PICK k \in 1 .. Size(i)' : Reach(i, k)' /\ files'[i][k] = u
    BY <2>4
  <2>6. k \in 1 .. Size(i) /\ files[i][k] = u
    BY <2>3, <2>5 DEF Size
  <2>7. i > fd \/ (i = fd /\ (k > pos' \/ pos' > Size(fd)))
    BY <2>3, <2>5 DEF Reach, Size
  <2>8. CASE i > fd
    <3>1. fd \in 1 .. i - 1
      BY <1>1, <2>8, TailBoundAssumption DEF Inodes
    <3>2. Rank(files[fd][p]) < Rank(files[i][k])
      BY <2>6, <3>1 DEF DiskInv, RankInv
    <3> QED BY <2>6, <3>2
  <2>9. CASE i = fd /\ k > pos'
    <3>1. p \in 1 .. k - 1 /\ k \in 1 .. Size(fd)
      BY <1>1, <1>3, <2>2, <2>6, <2>9
    <3>2. Rank(files[fd][p]) < Rank(files[fd][k])
      BY <1>1, <3>1 DEF DiskInv, RankInv
    <3> QED BY <2>6, <2>9, <3>2
  <2>10. ~(pos' > Size(fd))
    BY <1>1, <2>2
  <2> QED BY <2>7, <2>8, <2>9, <2>10
<1> QED
  BY <1>2, <1>3

(* The buffer stays in the order of writing, truncations of the file or not:
   what a fill takes was unread, what a write adds is younger than everything. *)
LEMMA BufferStep ==
    ASSUME TypeOK, DiskInv, ReadInv, [Next]_tailVars
    PROVE  BufferInv'
<1>0. PlaceInv /\ ViewInv /\ BufferInv
  BY DEF ReadInv
<1>1. /\ pos \in Nat /\ Len(ahead) \in Nat /\ fd \in Inodes /\ Size(fd) \in Nat
      /\ \A k \in 1 .. Len(ahead) : ahead[k] \in Units
  BY FileLaw, LenProperties, ElementOfSeq DEF TypeOK
<1>2. \A u \in Units : Rank(u) \in Int
  BY RankLaw
<1>3. CASE World
  <2>1. UNCHANGED <<phase, ahead>>
    BY <1>3, StepsApart DEF reader
  <2>2. NextRank \in Int /\ NextRank' \in Int /\ NextRank' >= NextRank
    BY <1>3, WorldLaw
  <2>3. ASSUME phase # "closed", NEW k \in 1 .. Len(ahead)
        PROVE  /\ Rank(ahead[k]) < NextRank'
               /\ \A j \in 1 .. k - 1 : Rank(ahead[j]) < Rank(ahead[k])
               /\ \A u \in Units : Unread(u)' => Rank(ahead[k]) < Rank(u)
    <3>1. /\ Rank(ahead[k]) < NextRank
          /\ \A j \in 1 .. k - 1 : Rank(ahead[j]) < Rank(ahead[k])
          /\ \A u \in Units : Unread(u) => Rank(ahead[k]) < Rank(u)
      BY <1>0, <2>3 DEF BufferInv
    <3>2. Rank(ahead[k]) \in Int
      BY <1>1, <1>2
    <3>3. Rank(ahead[k]) < NextRank'
      BY <2>2, <3>1, <3>2
    <3>4. ASSUME NEW u \in Units, Unread(u)' PROVE Rank(ahead[k]) < Rank(u)
      <4>1. Unread(u) \/ Rank(u) = NextRank
        BY <1>0, <1>3, <3>4, UnreadWorld
      <4> QED BY <3>1, <4>1
    <3> QED BY <3>1, <3>3, <3>4
  <2>4. phase # "closed" => \A k \in 1 .. Len(ahead') :
          /\ Rank(ahead'[k]) < NextRank'
          /\ \A j \in 1 .. k - 1 : Rank(ahead'[j]) < Rank(ahead'[k])
          /\ \A u \in Units : Unread(u)' => Rank(ahead'[k]) < Rank(u)
    BY <2>1, <2>3
  <2> QED BY <2>1, <2>4 DEF BufferInv, Rank, IsTail
<1>4. CASE OpenLog \/ HitEof
  <2>1. ahead' = <<>>
    BY <1>4 DEF OpenLog, HitEof
  <2> QED BY <2>1 DEF BufferInv
<1>5. CASE Fill
  <2>1. PICK n \in 1 .. Size(fd) - pos :
          /\ pos' = pos + n
          /\ Len(ahead') = Len(ahead) + n
          /\ \A k \in 1 .. Len(ahead) : ahead'[k] = ahead[k]
          /\ \A k \in Len(ahead) + 1 .. Len(ahead) + n : ahead'[k] = files[fd][pos + k - Len(ahead)]
    BY <1>5, FillLaw
  <2>2. phase # "closed" /\ UNCHANGED disk
    BY <1>5 DEF Fill
  <2>3. NextRank' = NextRank
    BY <2>2 DEF disk, NextRank
  <2>4. ASSUME NEW k \in 1 .. Len(ahead)
        PROVE  /\ ahead[k] \in Units
               /\ Rank(ahead[k]) < NextRank
               /\ \A j \in 1 .. k - 1 : Rank(ahead[j]) < Rank(ahead[k])
               /\ \A u \in Units : Unread(u) => Rank(ahead[k]) < Rank(u)
    BY <1>0, <1>1, <2>2 DEF BufferInv
  <2>5. \A k \in 1 .. Len(ahead) : \A u \in Units : Unread(u)' => Rank(ahead[k]) < Rank(u)
    BY <1>0, <1>5, <2>4, UnreadFollow DEF Follow
  (* The units that are new to the buffer. *)
  <2>6. ASSUME NEW k \in Len(ahead) + 1 .. Len(ahead) + n
        PROVE  /\ pos + k - Len(ahead) \in pos + 1 .. Size(fd)
               /\ pos + k - Len(ahead) \in 1 .. Size(fd)
               /\ pos + k - Len(ahead) =< pos'
    BY <1>1, <2>1
  <2>7. ASSUME NEW k \in Len(ahead) + 1 .. Len(ahead) + n
        PROVE  /\ ahead'[k] \in Units /\ Unread(ahead'[k])
               /\ Rank(ahead'[k]) < NextRank
               /\ \A u \in Units : Unread(u)' => Rank(ahead'[k]) < Rank(u)
    <3> DEFINE p == pos + k - Len(ahead)
    <3>1. p \in pos + 1 .. Size(fd) /\ p \in 1 .. Size(fd) /\ p =< pos' /\ ahead'[k] = files[fd][p]
      BY <2>1, <2>6
    <3> HIDE DEF p
    <3>2. files[fd][p] \in Units /\ Unread(files[fd][p])
      BY <1>5, <3>1, FillUnread
    <3>3. Rank(files[fd][p]) < NextRank
      BY <1>1, <3>1 DEF DiskInv, UnitInv
    <3>4. \A u \in Units : Unread(u)' => Rank(files[fd][p]) < Rank(u)
      BY <1>5, <3>1, FillUnread
    <3> QED BY <3>1, <3>2, <3>3, <3>4
  <2>8. ASSUME NEW k \in 1 .. Len(ahead'), NEW j \in 1 .. k - 1
        PROVE  Rank(ahead'[j]) < Rank(ahead'[k])
    <3>1. CASE k \in 1 .. Len(ahead)
      <4>1. j \in 1 .. Len(ahead)
        BY <1>1, <3>1
      <4> QED BY <2>1, <2>4, <3>1, <4>1
    <3>2. CASE k \in Len(ahead) + 1 .. Len(ahead) + n /\ j \in 1 .. Len(ahead)
      BY <2>1, <2>4, <2>7, <3>2
    <3>3. CASE k \in Len(ahead) + 1 .. Len(ahead) + n /\ j \in Len(ahead) + 1 .. Len(ahead) + n
      <4> DEFINE p == pos + k - Len(ahead)
                 q == pos + j - Len(ahead)
      <4>1. p \in 1 .. Size(fd) /\ q \in 1 .. p - 1
        <5>1. p \in 1 .. Size(fd) /\ q \in 1 .. Size(fd)
          BY <2>6, <3>3
        <5>2. q < p
          BY <1>1, <2>1, <3>3
        <5> QED BY <1>1, <5>1, <5>2
      <4>2. ahead'[k] = files[fd][p] /\ ahead'[j] = files[fd][q]
        BY <2>1, <3>3
      <4> HIDE DEF p, q
      <4>3. Rank(files[fd][q]) < Rank(files[fd][p])
        BY <1>1, <4>1 DEF DiskInv, RankInv
      <4> QED BY <4>2, <4>3
    <3>4. \/ k \in 1 .. Len(ahead)
          \/ k \in Len(ahead) + 1 .. Len(ahead) + n /\ j \in 1 .. Len(ahead)
          \/ k \in Len(ahead) + 1 .. Len(ahead) + n /\ j \in Len(ahead) + 1 .. Len(ahead) + n
      BY <1>1, <2>1
    <3> QED BY <3>1, <3>2, <3>3, <3>4
  <2>9. ASSUME NEW k \in 1 .. Len(ahead')
        PROVE  /\ Rank(ahead'[k]) < NextRank'
               /\ \A u \in Units : Unread(u)' => Rank(ahead'[k]) < Rank(u)
    <3>1. k \in 1 .. Len(ahead) \/ k \in Len(ahead) + 1 .. Len(ahead) + n
      BY <1>1, <2>1
    <3>2. CASE k \in 1 .. Len(ahead)
      BY <2>1, <2>3, <2>4, <2>5, <3>2
    <3>3. CASE k \in Len(ahead) + 1 .. Len(ahead) + n
      BY <2>3, <2>7, <3>3
    <3> QED BY <3>1, <3>2, <3>3
  <2> QED BY <2>8, <2>9 DEF BufferInv, Rank, IsTail
<1>6. CASE TakeLine
  <2>1. /\ LineEnd \in 1 .. Len(ahead)
        /\ Len(ahead') = Len(ahead) - LineEnd
        /\ \A k \in 1 .. Len(ahead') : ahead'[k] = ahead[k + LineEnd]
    BY <1>6, TakeLaw
  <2>2. phase # "closed" /\ UNCHANGED disk
    BY <1>6 DEF TakeLine
  <2>3. NextRank' = NextRank
    BY <2>2 DEF disk, NextRank
  <2>4. ASSUME NEW k \in 1 .. Len(ahead')
        PROVE  /\ Rank(ahead'[k]) < NextRank'
               /\ \A j \in 1 .. k - 1 : Rank(ahead'[j]) < Rank(ahead'[k])
               /\ \A u \in Units : Unread(u)' => Rank(ahead'[k]) < Rank(u)
    <3> DEFINE p == k + LineEnd
    <3>1. p \in 1 .. Len(ahead) /\ ahead'[k] = ahead[p]
      BY <1>1, <2>1
    <3>2. \A j \in 1 .. k - 1 : j + LineEnd \in 1 .. p - 1 /\ ahead'[j] = ahead[j + LineEnd]
      <4>1. \A j \in 1 .. k - 1 : j + LineEnd \in 1 .. p - 1 /\ j \in 1 .. Len(ahead')
        BY <1>1, <2>1
      <4> QED BY <2>1, <4>1
    <3> HIDE DEF p
    <3>3. /\ Rank(ahead[p]) < NextRank
          /\ \A j \in 1 .. p - 1 : Rank(ahead[j]) < Rank(ahead[p])
          /\ \A u \in Units : Unread(u) => Rank(ahead[p]) < Rank(u)
      BY <1>0, <2>2, <3>1 DEF BufferInv
    <3>4. \A u \in Units : Unread(u)' => Unread(u)
      BY <1>0, <1>6, UnreadFollow DEF Follow
    <3>5. \A j \in 1 .. k - 1 : Rank(ahead'[j]) < Rank(ahead'[k])
      BY <3>1, <3>2, <3>3
    <3> QED BY <2>3, <3>1, <3>3, <3>4, <3>5
  <2> QED BY <2>4 DEF BufferInv, Rank, IsTail
<1>7. CASE Poll
  <2>1. UNCHANGED <<ahead, disk>> /\ phase # "closed"
    BY <1>7 DEF Poll
  <2>2. \A u \in Units : Unread(u)' => Unread(u)
    BY <1>0, <1>7, UnreadFollow DEF Follow
  <2>3. NextRank' = NextRank
    BY <2>1 DEF disk, NextRank
  <2>4. \A k \in 1 .. Len(ahead') :
          /\ Rank(ahead'[k]) < NextRank'
          /\ \A j \in 1 .. k - 1 : Rank(ahead'[j]) < Rank(ahead'[k])
          /\ \A u \in Units : Unread(u)' => Rank(ahead'[k]) < Rank(u)
    BY <1>0, <2>1, <2>2, <2>3 DEF BufferInv
  <2> QED BY <2>4 DEF BufferInv, Rank, IsTail
<1>8. CASE Fail
  BY <1>8 DEF Fail, ReadFails, StatFails, BufferInv
<1>9. CASE UNCHANGED tailVars
  BY <1>0, <1>9 DEF tailVars, disk, reader, record, BufferInv, Unread, Reach, Size, NextRank
<1> QED
  BY <1>3, <1>4, <1>5, <1>6, <1>7, <1>8, <1>9 DEF Next, Follow

(* A reader that is not blind fills its buffer from one epoch of one file. *)
LEMMA ClearStep ==
    ASSUME TypeOK, DiskInv, ReadInv, [Next]_tailVars
    PROVE  ClearInv'
<1>0. PlaceInv /\ ViewInv /\ ClearInv
  BY DEF ReadInv
<1>1. pos \in Nat /\ Len(ahead) \in Nat /\ fd \in Inodes /\ Size(fd) \in Nat /\ offset \in Nat
      /\ offset + Len(ahead) =< pos
  BY <1>0, FileLaw, LenProperties DEF TypeOK, PlaceInv
<1>2. CASE World
  <2>1. UNCHANGED <<phase, fd, ahead, view, blind>>
    BY <1>2, StepsApart DEF reader, record
  <2>2. Len(home) \in Nat /\ Len(home') \in Nat /\ Len(home') >= Len(home)
        /\ \A m \in 1 .. Len(home) : home'[m] = home[m]
    BY <1>2, WorldLaw
  <2>3. \A m \in 1 .. Len(home) : m \in 1 .. Len(home') /\ home'[m] = home[m]
    BY <2>2
  <2> QED BY <1>0, <2>1, <2>3 DEF ClearInv
<1>3. CASE OpenLog \/ HitEof
  <2>1. ahead' = <<>>
    BY <1>3 DEF OpenLog, HitEof
  <2> QED BY <2>1 DEF ClearInv
<1>4. CASE Fill
  <2>1. UNCHANGED <<phase, fd, view, disk>> /\ phase # "closed"
        /\ (~blind' => epoch[fd] = view)
    BY <1>4 DEF Fill
  <2>2. UNCHANGED <<files, home, epoch>>
    BY <2>1 DEF disk
  <2>3. PICK n \in 1 .. Size(fd) - pos : pos' = pos + n /\ Len(ahead') = Len(ahead) + n
    BY <1>4, FillLaw
  <2>4. ASSUME ~blind', NEW k \in 1 .. Len(ahead')
        PROVE  /\ ahead'[k][1] \in 1 .. Len(home) /\ home[ahead'[k][1]] = <<fd, view>>
               /\ k < Len(ahead') /\ ahead'[k][2] = "head" => ahead'[k + 1] = TailOf(ahead'[k][1])
    <3>1. \A j \in 1 .. Len(ahead') : ahead'[j] = files[fd][pos' - Len(ahead') + j]
      <4>1. ViewInv'
        BY ViewStep
      <4> QED BY <2>1, <2>2, <2>4, <4>1 DEF ViewInv
    <3> DEFINE p == pos' - Len(ahead') + k
    <3>2. p \in 1 .. Size(fd) /\ (k < Len(ahead') => p < Size(fd) /\ k + 1 \in 1 .. Len(ahead')
                                                     /\ pos' - Len(ahead') + (k + 1) = p + 1)
      BY <1>1, <2>3
    <3>3. ahead'[k] = files[fd][p] /\ (k < Len(ahead') => ahead'[k + 1] = files[fd][p + 1])
      BY <3>1, <3>2
    <3> HIDE DEF p
    <3>4. /\ files[fd][p][1] \in 1 .. Len(home)
          /\ home[files[fd][p][1]] = HomeOf(fd)
          /\ p < Size(fd) /\ files[fd][p][2] = "head" => files[fd][p + 1] = TailOf(files[fd][p][1])
      BY <1>1, <3>2 DEF DiskInv, UnitInv
    <3> QED BY <2>1, <2>4, <3>2, <3>3, <3>4 DEF HomeOf
  <2> QED BY <2>1, <2>2, <2>4 DEF ClearInv, TailOf
<1>5. CASE TakeLine
  <2>1. /\ LineEnd \in 1 .. Len(ahead)
        /\ Len(ahead') = Len(ahead) - LineEnd
        /\ \A k \in 1 .. Len(ahead') : ahead'[k] = ahead[k + LineEnd]
    BY <1>5, TakeLaw
  <2>2. UNCHANGED <<phase, fd, view, blind, home>>
    BY <1>5 DEF TakeLine, disk
  <2>3. ASSUME phase # "closed", ~blind, NEW k \in 1 .. Len(ahead')
        PROVE  /\ ahead'[k][1] \in 1 .. Len(home) /\ home[ahead'[k][1]] = <<fd, view>>
               /\ k < Len(ahead') /\ ahead'[k][2] = "head" => ahead'[k + 1] = TailOf(ahead'[k][1])
    <3> DEFINE p == k + LineEnd
    <3>1. p \in 1 .. Len(ahead) /\ (k < Len(ahead') => p < Len(ahead) /\ k + 1 \in 1 .. Len(ahead')
                                                       /\ k + 1 + LineEnd = p + 1)
      BY <1>1, <2>1
    <3>2. ahead'[k] = ahead[p] /\ (k < Len(ahead') => ahead'[k + 1] = ahead[p + 1])
      BY <2>1, <3>1
    <3> HIDE DEF p
    <3> QED BY <1>0, <2>3, <3>1, <3>2 DEF ClearInv
  <2> QED BY <2>2, <2>3 DEF ClearInv, TailOf
<1>6. CASE Poll
  <2>1. UNCHANGED <<ahead, fd, view, home>> /\ phase # "closed" /\ (~blind' => ~blind)
    BY <1>6 DEF Poll, disk
  <2> QED BY <1>0, <2>1 DEF ClearInv
<1>7. CASE Fail
  BY <1>7 DEF Fail, ReadFails, StatFails, ClearInv
<1>8. CASE UNCHANGED tailVars
  BY <1>0, <1>8 DEF tailVars, disk, reader, record, ClearInv
<1> QED
  BY <1>2, <1>3, <1>4, <1>5, <1>6, <1>7, <1>8 DEF Next, Follow

(* The four together. *)
LEMMA ReadStep == TypeOK /\ DiskInv /\ ReadInv /\ [Next]_tailVars => ReadInv'
BY PlaceStep, ViewStep, BufferStep, ClearStep DEF ReadInv

-----------------------------------------------------------------------------
(* The order of what is processed. *)

(* While no error made Run start over, everything still to come was written
   after all that was processed, and its heads after all that was skipped. *)
OrderInv == faults = 0 =>
    /\ \A i, j \in DOMAIN seen : i < j => seen[i] < seen[j]
    /\ \A j \in DOMAIN seen : seen[j] \notin skipped
    /\ \A u \in Units : Pending(u) =>
        /\ \A j \in DOMAIN seen : 2 * seen[j] + 1 < Rank(u)
        /\ \A m \in skipped : 2 * m < Rank(u)

(* The world adds nothing to what is to come but the unit it writes. *)
LEMMA PendingWorld ==
    ASSUME TypeOK, DiskInv, ReadInv, World, NEW u \in Units, Pending(u)'
    PROVE  Pending(u) \/ (Rank(u) = NextRank /\ NextRank' = NextRank + 1)
<1>1. Held(u)' => Held(u)
  BY StepsApart DEF Held, reader
<1>2. Unread(u)' => Unread(u) \/ (Rank(u) = NextRank /\ NextRank' = NextRank + 1)
  BY UnreadWorld DEF ReadInv
<1> QED
  BY <1>1, <1>2 DEF Pending

(* The reader makes nothing to come that was not: it moves units from the file
   to the buffer, and takes them or throws them away. *)
LEMMA PendingFollow ==
    ASSUME TypeOK, DiskInv, ReadInv, Follow, NEW u \in Units, Pending(u)'
    PROVE  Pending(u)
<1>1. Unread(u)' => Unread(u)
  BY UnreadFollow DEF ReadInv
<1>2. pos \in Nat /\ Len(ahead) \in Nat
  BY LenProperties DEF TypeOK
<1>3. ASSUME Held(u)', Follow PROVE Pending(u)
  <2>1. PICK k \in 1 .. Len(ahead') : ahead'[k] = u
    BY <1>3 DEF Held
  <2>2. CASE OpenLog \/ HitEof
    <3>1. ahead' = <<>>
      BY <2>2 DEF OpenLog, HitEof
    <3> QED BY <2>1, <3>1
  <2>3. CASE Fill
    <3>1. PICK n \in 1 .. Size(fd) - pos :
            /\ Len(ahead') = Len(ahead) + n
            /\ \A j \in 1 .. Len(ahead) : ahead'[j] = ahead[j]
            /\ \A j \in Len(ahead) + 1 .. Len(ahead) + n : ahead'[j] = files[fd][pos + j - Len(ahead)]
      BY <2>3, FillLaw
    <3>2. Size(fd) \in Nat /\ phase # "closed"
      BY <2>3, FileLaw DEF TypeOK, Fill
    <3>3. k \in 1 .. Len(ahead) \/ k \in Len(ahead) + 1 .. Len(ahead) + n
      BY <1>2, <2>1, <3>1, <3>2
    <3>4. CASE k \in 1 .. Len(ahead)
      BY <2>1, <3>1, <3>2, <3>4 DEF Pending, Held
    <3>5. CASE k \in Len(ahead) + 1 .. Len(ahead) + n
      <4>1. pos + k - Len(ahead) \in pos + 1 .. Size(fd)
        BY <1>2, <3>1, <3>2, <3>5
      <4>2. ahead'[k] = files[fd][pos + k - Len(ahead)]
        BY <3>1, <3>5
      <4>3. Unread(files[fd][pos + k - Len(ahead)])
        BY <2>3, <4>1, FillUnread
      <4> QED BY <2>1, <4>2, <4>3 DEF Pending
    <3> QED BY <3>3, <3>4, <3>5
  <2>4. CASE TakeLine
    <3>1. LineEnd \in 1 .. Len(ahead) /\ Len(ahead') = Len(ahead) - LineEnd
          /\ ahead'[k] = ahead[k + LineEnd]
      BY <2>1, <2>4, TakeLaw
    <3>2. k + LineEnd \in 1 .. Len(ahead)
      BY <1>2, <2>1, <3>1
    <3> QED BY <2>1, <2>4, <3>1, <3>2 DEF Pending, Held, TakeLine
  <2>5. CASE Poll
    BY <1>3, <2>5 DEF Pending, Held, Poll
  <2> QED BY <1>3, <2>2, <2>3, <2>4, <2>5 DEF Follow
<1> QED
  BY <1>1, <1>3 DEF Pending

(* A line that is processed was to come, and all that is to come after it was
   written later. *)
LEMMA TakenLaw ==
    ASSUME TypeOK, DiskInv, ReadInv, TakeLine, seen' # seen
    PROVE  \E n \in Lines :
              /\ seen' = Append(seen, n)
              /\ Len(ahead) >= 2 /\ ahead[1] = HeadOf(n) /\ ahead[2] = TailOf(n)
              /\ n < nextLine
              /\ Pending(HeadOf(n))
              /\ \A u \in Units : Pending(u)' => 2 * n + 1 < Rank(u)
<1> DEFINE n == ahead[2][1]
<1>1. /\ LineEnd = 2 /\ n \in Lines /\ ahead[1] = HeadOf(n) /\ ahead[2] = TailOf(n)
      /\ seen' = Append(seen, n) /\ 2 \in 1 .. Len(ahead) /\ Len(ahead) \in Nat
  BY TakeLaw
<1>2. phase # "closed" /\ phase' # "closed" /\ Len(ahead) >= 2
  BY <1>1 DEF TakeLine
<1>3. Pending(HeadOf(n))
  <2>1. 1 \in 1 .. Len(ahead)
    BY <1>1
  <2> QED BY <1>1, <1>2, <2>1 DEF Pending, Held
<1> HIDE DEF n
<1>4. Rank(ahead[2]) = 2 * n + 1
  BY <1>1, RankLaw
<1>5. n < nextLine
  <2>1. Rank(ahead[2]) < NextRank
    BY <1>1, <1>2 DEF ReadInv, BufferInv
  <2>2. nextLine \in Int /\ n \in Int
    BY <1>1 DEF TypeOK, Lines
  <2> QED BY <1>4, <2>1, <2>2 DEF NextRank
<1>6. ASSUME NEW u \in Units, Pending(u)' PROVE 2 * n + 1 < Rank(u)
  <2>1. CASE Unread(u)'
    <3>1. Unread(u)
      BY <2>1, UnreadFollow DEF ReadInv, Follow
    <3>2. Rank(ahead[2]) < Rank(u)
      BY <1>1, <1>2, <3>1 DEF ReadInv, BufferInv
    <3> QED BY <1>4, <3>2
  <2>2. CASE Held(u)'
    <3>1. PICK k \in 1 .. Len(ahead') : ahead'[k] = u
      BY <2>2 DEF Held
    <3>2. Len(ahead') = Len(ahead) - 2 /\ ahead'[k] = ahead[k + 2]
      BY <1>1, <3>1, TakeLaw
    <3>3. k + 2 \in 1 .. Len(ahead) /\ 2 \in 1 .. k + 2 - 1
      BY <1>1, <3>1, <3>2
    <3>4. Rank(ahead[2]) < Rank(ahead[k + 2])
      BY <1>2, <3>3 DEF ReadInv, BufferInv
    <3> QED BY <1>4, <3>1, <3>2, <3>4
  <2> QED BY <1>6, <2>1, <2>2 DEF Pending
<1> QED
  BY <1>1, <1>2, <1>3, <1>5, <1>6

(* Processing a line keeps the order: it was to come, so it is younger than what
   was processed, and what is still to come is younger than it. *)
LEMMA OrderStep ==
    ASSUME TypeOK, DiskInv, ReadInv, OrderInv, [Next]_tailVars
    PROVE  OrderInv'
<1>1. /\ seen \in Seq(Lines) /\ Len(seen) \in Nat /\ DOMAIN seen = 1 .. Len(seen)
      /\ \A j \in DOMAIN seen : seen[j] \in Int
      /\ \A m \in skipped : m \in Int
      /\ nextLine \in Int /\ faults \in Nat
  <2>1. seen \in Seq(Lines) /\ Len(seen) \in Nat /\ DOMAIN seen = 1 .. Len(seen)
    BY LenProperties DEF TypeOK
  <2>2. \A j \in DOMAIN seen : seen[j] \in Lines
    BY <2>1, ElementOfSeq
  <2> QED BY <2>1, <2>2 DEF TypeOK, Lines
<1>2. CASE World
  <2>1. UNCHANGED <<seen, skipped, faults>>
    BY <1>2, StepsApart DEF record
  <2>2. \A j \in DOMAIN seen : 2 * seen[j] + 1 < NextRank
    <3>1. \A j \in DOMAIN seen : seen[j] < nextLine
      BY <1>1 DEF ReadInv, PlaceInv
    <3> QED BY <1>1, <3>1 DEF NextRank
  <2>3. \A m \in skipped : 2 * m < NextRank
    <3>1. \A m \in skipped : m =< Len(home)
      BY DEF ReadInv, PlaceInv
    <3>2. Len(home) = IF half THEN nextLine ELSE nextLine - 1
      BY DEF DiskInv, WriterInv
    <3> QED BY <1>1, <3>1, <3>2 DEF NextRank
  <2>4. ASSUME faults = 0, NEW u \in Units, Pending(u)'
        PROVE  /\ \A j \in DOMAIN seen : 2 * seen[j] + 1 < Rank(u)
               /\ \A m \in skipped : 2 * m < Rank(u)
    <3>1. Pending(u) \/ Rank(u) = NextRank
      BY <1>2, <2>4, PendingWorld
    <3> QED BY <2>2, <2>3, <2>4, <3>1 DEF OrderInv
  <2> QED BY <2>1, <2>4 DEF OrderInv, Rank, IsTail
<1>3. CASE OpenLog
  <2>1. UNCHANGED <<seen, faults>> /\ (started => skipped' = skipped)
        /\ pos' = (IF started THEN 0 ELSE Size(path)) /\ fd' = path /\ phase' = "read" /\ ahead' = <<>>
        /\ path \in Inodes /\ path = newest /\ UNCHANGED disk
    BY <1>3 DEF OpenLog, TypeOK
  <2>2. CASE started
    <3>1. ASSUME faults = 0, NEW u \in Units, Pending(u)'
          PROVE  /\ \A j \in DOMAIN seen : 2 * seen[j] + 1 < Rank(u)
                 /\ \A m \in skipped : 2 * m < Rank(u)
      <4>1. Pending(u)
        BY <1>3, <3>1, PendingFollow DEF Follow
      <4> QED BY <3>1, <4>1 DEF OrderInv
    <3> QED BY <2>1, <2>2, <3>1 DEF OrderInv, Rank, IsTail
  <2>3. CASE ~started
    <3>1. seen = <<>>
      BY <2>3 DEF ReadInv, PlaceInv
    <3>2. ASSUME NEW u \in Units PROVE ~Pending(u)'
      <4>1. ~Held(u)'
        BY <2>1 DEF Held
      <4>2. ASSUME NEW i \in Inodes, NEW k \in 1 .. Size(i)', Reach(i, k)' PROVE FALSE
        <5>1. files' = files
          BY <2>1 DEF disk
        <5>2. k \in 1 .. Size(i) /\ Size(i) \in Nat /\ Size(path) \in Nat /\ i \in Int /\ path \in Int
          BY <2>1, <5>1, FileLaw, TailBoundAssumption DEF Size, Inodes
        <5>3. i > path \/ (i = path /\ (k > Size(path) \/ Size(path) > Size(path)))
          BY <2>1, <2>3, <4>2, <5>1 DEF Reach, Size
        <5>4. i > path => Size(i) = 0
          BY <2>1 DEF DiskInv, WriterInv, Size
        <5>5. ~(k > Size(i))
          BY <5>2
        <5>6. Size(i) # 0
          BY <5>2
        <5>7. ~(Size(path) > Size(path))
          BY <5>2
        <5> QED BY <5>3, <5>4, <5>5, <5>6, <5>7
      <4> QED BY <4>1, <4>2 DEF Pending, Unread
    <3>3. DOMAIN seen' = {}
      BY <2>1, <3>1
    <3> QED BY <3>2, <3>3 DEF OrderInv
  <2> QED BY <2>2, <2>3
<1>4. CASE Fill \/ HitEof \/ Poll \/ (TakeLine /\ seen' = seen)
  <2>1. UNCHANGED <<seen, skipped, faults>>
    BY <1>4 DEF Fill, HitEof, Poll, TakeLine
  <2>2. ASSUME faults = 0, NEW u \in Units, Pending(u)'
        PROVE  /\ \A j \in DOMAIN seen : 2 * seen[j] + 1 < Rank(u)
               /\ \A m \in skipped : 2 * m < Rank(u)
    <3>1. Pending(u)
      BY <1>4, <2>2, PendingFollow DEF Follow
    <3> QED BY <2>2, <3>1 DEF OrderInv
  <2> QED BY <2>1, <2>2 DEF OrderInv, Rank, IsTail
<1>5. CASE TakeLine /\ seen' # seen
  <2>1. PICK n \in Lines :
          /\ seen' = Append(seen, n)
          /\ Pending(HeadOf(n))
          /\ \A u \in Units : Pending(u)' => 2 * n + 1 < Rank(u)
    BY <1>5, TakenLaw
  <2>2. skipped' = skipped /\ faults' = faults
    BY <1>5 DEF TakeLine
  <2>3. HeadOf(n) \in Units /\ Rank(HeadOf(n)) = 2 * n /\ n \in Int
    BY RankLaw DEF Lines
  <2>4. /\ DOMAIN seen' = 1 .. Len(seen) + 1
        /\ \A j \in DOMAIN seen : seen'[j] = seen[j]
        /\ seen'[Len(seen) + 1] = n
    <3>1. seen' \in Seq(Lines) /\ Len(seen') = Len(seen) + 1
          /\ (\A j \in 1 .. Len(seen) : seen'[j] = seen[j]) /\ seen'[Len(seen) + 1] = n
      BY <1>1, <2>1, AppendProperties
    <3> QED BY <1>1, <3>1, LenProperties
  <2>5. ASSUME faults = 0
        PROVE  /\ \A j \in DOMAIN seen : seen[j] < n
               /\ \A m \in skipped : m < n
    <3>1. /\ \A j \in DOMAIN seen : 2 * seen[j] + 1 < Rank(HeadOf(n))
          /\ \A m \in skipped : 2 * m < Rank(HeadOf(n))
      BY <2>1, <2>3, <2>5 DEF OrderInv
    <3> QED BY <1>1, <2>3, <3>1
  <2>6. ASSUME faults = 0, NEW i \in DOMAIN seen', NEW j \in DOMAIN seen', i < j
        PROVE  seen'[i] < seen'[j]
    <3>1. i \in DOMAIN seen /\ (j \in DOMAIN seen \/ j = Len(seen) + 1)
      BY <1>1, <2>4, <2>6
    <3> QED BY <2>4, <2>5, <2>6, <3>1 DEF OrderInv
  <2>7. ASSUME faults = 0, NEW j \in DOMAIN seen' PROVE seen'[j] \notin skipped
    <3>1. j \in DOMAIN seen \/ j = Len(seen) + 1
      BY <1>1, <2>4
    <3>2. n \notin skipped
      BY <2>3, <2>5, <2>7
    <3> QED BY <2>4, <2>7, <3>1, <3>2 DEF OrderInv
  <2>8. ASSUME faults = 0, NEW u \in Units, Pending(u)'
        PROVE  /\ \A j \in DOMAIN seen' : 2 * seen'[j] + 1 < Rank(u)
               /\ \A m \in skipped : 2 * m < Rank(u)
    <3>1. 2 * n + 1 < Rank(u) /\ Rank(u) \in Int
      BY <2>1, <2>8, RankLaw
    <3>2. \A m \in skipped : 2 * m < Rank(u)
      BY <1>1, <2>3, <2>5, <2>8, <3>1
    <3>3. ASSUME NEW j \in DOMAIN seen' PROVE 2 * seen'[j] + 1 < Rank(u)
      <4>1. CASE j \in DOMAIN seen
        <5>1. seen[j] < n /\ seen[j] \in Int
          BY <1>1, <2>5, <2>8, <4>1
        <5>2. 2 * seen[j] + 1 < Rank(u)
          BY <2>3, <3>1, <5>1
        <5> QED BY <2>4, <4>1, <5>2
      <4>2. CASE j = Len(seen) + 1
        BY <2>4, <3>1, <4>2
      <4>3. j \in DOMAIN seen \/ j = Len(seen) + 1
        BY <1>1, <2>4
      <4> QED BY <4>1, <4>2, <4>3
    <3> QED BY <3>2, <3>3
  <2> QED BY <2>2, <2>6, <2>7, <2>8 DEF OrderInv, Rank, IsTail
<1>6. CASE Fail
  <2>1. faults' = faults + 1
    BY <1>6 DEF Fail, ReadFails, StatFails
  <2>2. faults' # 0
    BY <1>1, <2>1
  <2> QED BY <2>2 DEF OrderInv
<1>7. CASE UNCHANGED tailVars
  BY <1>7 DEF tailVars, disk, reader, record, OrderInv, Pending, Held, Unread, Reach, Size
<1> QED
  BY <1>2, <1>3, <1>4, <1>5, <1>6, <1>7 DEF Next, Follow

-----------------------------------------------------------------------------
(* How often a line is processed. *)

(* Every line was read at most once for the start and once for each error, the
   reading that may still come included. *)
Times(n) == Cardinality({i \in DOMAIN seen : seen[i] = n})
Ahead(n) == n > Len(home) \/ Pending(HeadOf(n))
CountInv == \A n \in Lines : Times(n) + (IF Ahead(n) THEN 1 ELSE 0) =< 1 + faults

(* Processing a line counts for it and for no other. *)
LEMMA TimesLaw ==
    ASSUME TypeOK, NEW n \in Lines, seen' = Append(seen, n)
    PROVE  \A m \in Lines : /\ Times(m) \in Nat
                            /\ Times(m)' = Times(m) + (IF m = n THEN 1 ELSE 0)
<1> SUFFICES ASSUME NEW m \in Lines
             PROVE  Times(m) \in Nat /\ Times(m)' = Times(m) + (IF m = n THEN 1 ELSE 0)
  OBVIOUS
<1>1. seen \in Seq(Lines) /\ Len(seen) \in Nat /\ DOMAIN seen = 1 .. Len(seen)
  BY LenProperties DEF TypeOK
<1>2. /\ DOMAIN seen' = 1 .. Len(seen) + 1
      /\ \A j \in 1 .. Len(seen) : seen'[j] = seen[j]
      /\ seen'[Len(seen) + 1] = n
  <2>1. seen' \in Seq(Lines) /\ Len(seen') = Len(seen) + 1
        /\ (\A j \in 1 .. Len(seen) : seen'[j] = seen[j]) /\ seen'[Len(seen) + 1] = n
    BY <1>1, AppendProperties
  <2> QED BY <1>1, <2>1, LenProperties
<1> DEFINE S == {i \in DOMAIN seen : seen[i] = m}
           T == {i \in DOMAIN seen' : seen'[i] = m}
<1>3. IsFiniteSet(S) /\ Cardinality(S) \in Nat /\ Len(seen) + 1 \notin S
  <2>1. S \subseteq 1 .. Len(seen)
    BY <1>1
  <2>2. IsFiniteSet(1 .. Len(seen))
    BY <1>1, FS_Interval
  <2>3. IsFiniteSet(S)
    BY <2>1, <2>2, FS_Subset
  <2>4. Len(seen) + 1 \notin 1 .. Len(seen)
    BY <1>1
  <2> QED BY <2>1, <2>3, <2>4, FS_CardinalityType
<1>4. CASE m = n
  <2>1. T = S \cup {Len(seen) + 1}
    BY <1>1, <1>2, <1>4
  <2>2. Cardinality(T) = Cardinality(S) + 1
    BY <1>3, <2>1, FS_AddElement
  <2> QED BY <1>3, <1>4, <2>2 DEF Times
<1>5. CASE m # n
  <2>1. T = S
    BY <1>1, <1>2, <1>5
  <2>2. Cardinality(T) = Cardinality(S) /\ Times(m)' = Cardinality(T) /\ Times(m) = Cardinality(S)
    BY <2>1 DEF Times
  <2>3. Times(m) \in Nat /\ Times(m)' = Times(m)
    BY <1>3, <2>2
  <2> QED BY <1>5, <2>3
<1> QED
  BY <1>4, <1>5

(* What was not to come does not come, unless an error makes the reader start
   over. *)
LEMMA AheadStep ==
    ASSUME TypeOK, DiskInv, ReadInv, World \/ Follow, NEW n \in Lines, Ahead(n)'
    PROVE  Ahead(n)
<1>1. HeadOf(n) \in Units /\ HeadOf(n)' = HeadOf(n) /\ Rank(HeadOf(n)) = 2 * n /\ n \in Int
  BY RankLaw DEF HeadOf, Lines
<1>2. nextLine \in Int /\ Len(home) \in Nat
  BY LenProperties DEF TypeOK
<1>3. CASE World
  <2>1. Len(home') \in Nat /\ Len(home') >= Len(home)
    BY <1>3, WorldLaw
  <2>2. CASE n > Len(home')
    BY <1>1, <1>2, <2>1, <2>2 DEF Ahead
  <2>3. CASE Pending(HeadOf(n))'
    <3>1. Pending(HeadOf(n)) \/ 2 * n = NextRank
      BY <1>1, <1>3, <2>3, PendingWorld
    <3>2. ASSUME 2 * n = NextRank PROVE n > Len(home)
      <4>1. ~half
        BY <1>1, <1>2, <3>2 DEF NextRank
      <4>2. n = nextLine
        BY <1>1, <1>2, <3>2, <4>1 DEF NextRank
      <4> QED BY <1>2, <4>1, <4>2 DEF DiskInv, WriterInv
    <3> QED BY <3>1, <3>2 DEF Ahead
  <2> QED BY <2>2, <2>3 DEF Ahead
<1>4. CASE Follow
  <2>1. home' = home
    BY <1>4, StepsApart DEF disk
  <2>2. Pending(HeadOf(n))' => Pending(HeadOf(n))
    BY <1>1, <1>4, PendingFollow
  <2> QED BY <2>1, <2>2 DEF Ahead
<1> QED
  BY <1>3, <1>4

(* Processing a line uses up its reading to come; an error allows another. *)
LEMMA CountStep ==
    ASSUME TypeOK, DiskInv, ReadInv, CountInv, [Next]_tailVars
    PROVE  CountInv'
<1>1. \A n \in Lines : Times(n) \in Nat
  <2>1. seen \in Seq(Lines) /\ Len(seen) \in Nat /\ DOMAIN seen = 1 .. Len(seen)
    BY LenProperties DEF TypeOK
  <2>2. ASSUME NEW n \in Lines PROVE IsFiniteSet({i \in DOMAIN seen : seen[i] = n})
    <3>1. IsFiniteSet(1 .. Len(seen)) /\ {i \in DOMAIN seen : seen[i] = n} \subseteq 1 .. Len(seen)
      BY <2>1, FS_Interval
    <3> QED BY <3>1, FS_Subset
  <2> QED BY <2>2, FS_CardinalityType DEF Times
<1>2. faults \in Nat
  BY DEF TypeOK
<1>3. CASE (World \/ Follow) /\ seen' = seen
  <2>1. faults' = faults
    BY <1>3, StepsApart DEF record, Follow, OpenLog, Fill, TakeLine, HitEof, Poll
  <2>2. ASSUME NEW n \in Lines
        PROVE  Times(n)' + (IF Ahead(n)' THEN 1 ELSE 0) =< 1 + faults
    <3>1. Times(n)' = Times(n)
      BY <1>3 DEF Times
    <3>2. Ahead(n)' => Ahead(n)
      BY <1>3, AheadStep
    <3>3. Times(n) + (IF Ahead(n) THEN 1 ELSE 0) =< 1 + faults
      BY DEF CountInv
    <3> QED BY <1>1, <1>2, <3>1, <3>2, <3>3
  <2> QED BY <2>1, <2>2 DEF CountInv
<1>4. CASE TakeLine /\ seen' # seen
  <2>1. PICK n \in Lines :
          /\ seen' = Append(seen, n)
          /\ n < nextLine
          /\ Pending(HeadOf(n))
          /\ \A u \in Units : Pending(u)' => 2 * n + 1 < Rank(u)
    BY <1>4, TakenLaw
  <2>2. faults' = faults /\ home' = home
    BY <1>4 DEF TakeLine, disk
  <2>3. ~Ahead(n)'
    <3>1. ~(n > Len(home))
      <4>1. nextLine \in Int /\ n \in Int /\ Len(home) \in Nat
        BY LenProperties DEF TypeOK, Lines
      <4>2. Len(home) = IF half THEN nextLine ELSE nextLine - 1
        BY DEF DiskInv, WriterInv
      <4> QED BY <2>1, <4>1, <4>2
    <3>2. ~Pending(HeadOf(n))'
      <4>1. HeadOf(n) \in Units /\ HeadOf(n)' = HeadOf(n) /\ Rank(HeadOf(n)) = 2 * n /\ n \in Int
        BY RankLaw DEF HeadOf, Lines
      <4>2. ~(2 * n + 1 < 2 * n)
        BY <4>1
      <4> QED BY <2>1, <4>1, <4>2
    <3> QED BY <2>2, <3>1, <3>2 DEF Ahead
  <2>4. ASSUME NEW m \in Lines
        PROVE  Times(m)' + (IF Ahead(m)' THEN 1 ELSE 0) =< 1 + faults
    <3>1. Times(m)' = Times(m) + (IF m = n THEN 1 ELSE 0)
      BY <2>1, TimesLaw
    <3>2. Times(m) + (IF Ahead(m) THEN 1 ELSE 0) =< 1 + faults
      BY DEF CountInv
    <3>3. CASE m = n
      <4>1. Ahead(m) /\ ~Ahead(m)'
        BY <2>1, <2>3, <3>3 DEF Ahead
      <4> QED BY <1>1, <1>2, <3>1, <3>2, <3>3, <4>1
    <3>4. CASE m # n
      <4>1. Ahead(m)' => Ahead(m)
        BY <1>4, AheadStep DEF Follow
      <4> QED BY <1>1, <1>2, <3>1, <3>2, <3>4, <4>1
    <3> QED BY <3>3, <3>4
  <2> QED BY <2>2, <2>4 DEF CountInv
<1>5. CASE Fail
  <2>1. faults' = faults + 1 /\ seen' = seen
    BY <1>5 DEF Fail, ReadFails, StatFails
  <2>2. ASSUME NEW n \in Lines
        PROVE  Times(n)' + (IF Ahead(n)' THEN 1 ELSE 0) =< 1 + faults'
    <3>1. Times(n)' = Times(n)
      BY <2>1 DEF Times
    <3>2. Times(n) + (IF Ahead(n) THEN 1 ELSE 0) =< 1 + faults
      BY DEF CountInv
    <3>3. Times(n) =< 1 + faults
      BY <1>1, <1>2, <3>2
    <3> QED BY <1>1, <1>2, <2>1, <3>1, <3>3
  <2> QED BY <2>2 DEF CountInv
<1>6. CASE UNCHANGED tailVars
  BY <1>6 DEF tailVars, disk, reader, record, CountInv, Times, Ahead, Pending, Held, Unread, Reach, Size
<1>7. \/ (World \/ Follow) /\ seen' = seen
      \/ TakeLine /\ seen' # seen
      \/ Fail
      \/ UNCHANGED tailVars
  BY StepsApart DEF Next, Follow, OpenLog, Fill, HitEof, Poll, record
<1> QED
  BY <1>3, <1>4, <1>5, <1>6, <1>7

-----------------------------------------------------------------------------
(* The holes. *)

(* A line of the open file that is still to be processed: its head is in the
   buffer, or, the buffer being before it, in the file behind the position. *)
Left(m) ==
    \/ \E k \in 1 .. Len(ahead) : ahead[k] = HeadOf(m)
    \/ /\ \A k \in 1 .. Len(ahead) : Rank(ahead[k]) < 2 * m
       /\ epoch[fd] = view => \E k \in pos + 1 .. Size(fd) : files[fd][k] = HeadOf(m)

(* No holes, and what a reader that is not blind has not processed of the file
   it opened is torn or left. *)
NoHole == \A n \in 1 .. Len(home) : Seen(n) =>
    \A m \in 1 .. n - 1 : m \notin skipped /\ home[m] = home[n] => Seen(m) \/ m \in torn
NothingPassed == phase # "closed" => \A m \in 1 .. Len(home) \ skipped :
    home[m] = <<fd, view>> => Seen(m) \/ m \in torn \/ Left(m)
HoleInv == ~blind => NoHole /\ NothingPassed

(* The world takes nothing away from the file the reader has open, and writes
   behind its position. *)
LEMMA HoleWorld ==
    ASSUME TypeOK, DiskInv, ReadInv, HoleInv, World
    PROVE  HoleInv'
<1>1. UNCHANGED <<phase, fd, pos, ahead, view, skipped, seen, torn, blind>>
  BY StepsApart DEF reader, record
<1>2. /\ Len(home) \in Nat /\ Len(home') \in Nat /\ Len(home') >= Len(home)
      /\ \A m \in 1 .. Len(home) : home'[m] = home[m]
  BY WorldLaw
<1>3. /\ pos \in Nat /\ fd \in Inodes /\ view \in Nat /\ Size(fd) \in Nat /\ Len(ahead) \in Nat
      /\ nextLine \in Int /\ Len(seen) \in Nat /\ DOMAIN seen = 1 .. Len(seen)
      /\ Size(fd) = Len(files[fd])
  BY FileLaw, LenProperties DEF TypeOK, Size
<1>4. ASSUME ~blind, NEW n \in 1 .. Len(home'), Seen(n)',
             NEW m \in 1 .. n - 1, m \notin skipped, home'[m] = home'[n]
      PROVE  Seen(m)' \/ m \in torn
  <2>1. Seen(n)
    BY <1>1, <1>4 DEF Seen
  <2>2. n < nextLine
    BY <1>3, <2>1 DEF Seen, ReadInv, PlaceInv
  <2>3. n \in 1 .. Len(home) /\ m \in 1 .. Len(home)
    <3>1. Len(home) = IF half THEN nextLine ELSE nextLine - 1
      BY DEF DiskInv, WriterInv
    <3> QED BY <1>2, <1>3, <2>2, <3>1
  <2>4. Seen(m) \/ m \in torn
    BY <1>2, <1>4, <2>1, <2>3 DEF HoleInv, NoHole
  <2> QED BY <1>1, <2>4 DEF Seen
<1>5. ASSUME ~blind, phase # "closed", NEW m \in 1 .. Len(home'), m \notin skipped, home'[m] = <<fd, view>>
      PROVE  Seen(m)' \/ m \in torn \/ Left(m)'
  <2>1. CASE m \in 1 .. Len(home)
    <3>1. Seen(m) \/ m \in torn \/ Left(m)
      BY <1>2, <1>5, <2>1 DEF HoleInv, NothingPassed
    <3>2. ASSUME Left(m) PROVE Left(m)'
      <4>1. ASSUME epoch'[fd] = view PROVE epoch[fd] = view
        <5>1. view =< epoch[fd]
          BY <1>5 DEF ReadInv, ViewInv
        <5>2. epoch[fd] \in Nat /\ epoch'[fd] >= epoch[fd]
          BY <1>3, WorldLaw
        <5> QED BY <1>3, <4>1, <5>1, <5>2
      <4>2. ASSUME epoch'[fd] = view, NEW k \in pos + 1 .. Size(fd), files[fd][k] = HeadOf(m)
            PROVE  k \in pos + 1 .. Len(files'[fd]) /\ files'[fd][k] = HeadOf(m)
        <5>1. /\ Len(files'[fd]) \in Nat /\ Len(files'[fd]) >= Len(files[fd])
              /\ \A j \in 1 .. Len(files[fd]) : files'[fd][j] = files[fd][j]
          BY <1>3, <4>1, <4>2, WorldLaw
        <5>2. k \in 1 .. Len(files[fd]) /\ k \in pos + 1 .. Len(files'[fd])
          BY <1>3, <5>1
        <5> QED BY <4>2, <5>1, <5>2
      <4>3. CASE \E k \in 1 .. Len(ahead) : ahead[k] = HeadOf(m)
        BY <1>1, <4>3 DEF Left, HeadOf
      <4>4. CASE /\ \A k \in 1 .. Len(ahead) : Rank(ahead[k]) < 2 * m
                 /\ epoch[fd] = view => \E k \in pos + 1 .. Size(fd) : files[fd][k] = HeadOf(m)
        <5>1. epoch'[fd] = view => \E k \in pos + 1 .. Len(files'[fd]) : files'[fd][k] = HeadOf(m)
          BY <4>1, <4>2, <4>4
        <5>2. \A k \in 1 .. Len(ahead') : Rank(ahead'[k]) < 2 * m
          BY <1>1, <4>4
        <5> QED BY <1>1, <5>1, <5>2 DEF Left, HeadOf, Size, Rank, IsTail
      <4> QED BY <3>2, <4>3, <4>4 DEF Left
    <3> QED BY <1>1, <3>1, <3>2 DEF Seen
  <2>2. CASE m \notin 1 .. Len(home)
    <3>1. WriteHead
      BY <1>2, <2>2 DEF World, WriteTail, RollAway, RollCreate, Truncate
    <3>2. /\ path \in Inodes /\ nextLine \in Lines /\ HeadOf(nextLine) \in Units
          /\ files' = [files EXCEPT ![path] = Append(@, HeadOf(nextLine))]
          /\ Len(home) = nextLine - 1 /\ Len(home') = nextLine
          /\ home'[nextLine] = HomeOf(path)
      BY <3>1, HeadWritten DEF DiskInv
    <3>3. m = nextLine
      BY <1>3, <2>2, <3>2
    <3>4. path = fd /\ epoch[fd] = view
      BY <1>5, <3>2, <3>3 DEF HomeOf
    <3>5. NextRank = 2 * m
      BY <1>3, <3>1, <3>3 DEF NextRank, WriteHead
    <3>6. \A k \in 1 .. Len(ahead) : Rank(ahead[k]) < 2 * m
      BY <1>5, <3>5 DEF ReadInv, BufferInv
    <3>7. Size(fd) + 1 \in pos + 1 .. Len(files'[fd]) /\ files'[fd][Size(fd) + 1] = HeadOf(m)
      <4>1. Len(files'[fd]) = Size(fd) + 1 /\ files'[fd][Size(fd) + 1] = HeadOf(m)
        BY <1>3, <3>2, <3>3, <3>4, AppendLaw DEF Size
      <4>2. pos =< Size(fd)
        BY <1>5, <3>4 DEF ReadInv, ViewInv
      <4> QED BY <1>3, <4>1, <4>2
    <3>8. \A k \in 1 .. Len(ahead') : Rank(ahead'[k]) < 2 * m
      BY <1>1, <3>6
    <3> QED BY <1>1, <3>7, <3>8 DEF Left, HeadOf, Size, Rank, IsTail
  <2> QED BY <2>1, <2>2
<1> QED
  BY <1>1, <1>4, <1>5 DEF HoleInv, NoHole, NothingPassed

(* A line taken is the first that is left of its file, and nothing else is
   thrown away with it. *)
LEMMA HoleTake ==
    ASSUME TypeOK, DiskInv, ReadInv, HoleInv, TakeLine
    PROVE  HoleInv'
<1>1. UNCHANGED <<phase, fd, pos, view, skipped, torn, blind, files, epoch, home>> /\ phase # "closed"
  BY DEF TakeLine, disk
<1>2. /\ LineEnd \in 1 .. Len(ahead) /\ Len(ahead) \in Nat
      /\ Len(ahead') = Len(ahead) - LineEnd
      /\ \A k \in 1 .. Len(ahead') : ahead'[k] = ahead[k + LineEnd]
      /\ \A n \in Lines : ahead[1] = HeadOf(n) /\ Len(ahead) >= 2 /\ ahead[2] = TailOf(n) =>
           LineEnd = 2 /\ seen' = Append(seen, n)
  BY TakeLaw
<1>3. \A k \in 1 .. Len(ahead) : ahead[k] \in Units
  BY ElementOfSeq DEF TypeOK
<1>4. seen \in Seq(Lines) /\ Len(seen) \in Nat /\ DOMAIN seen = 1 .. Len(seen)
  BY LenProperties DEF TypeOK
<1>5. ASSUME NEW n \in Lines, seen' = Append(seen, n)
      PROVE  \A m : Seen(m)' <=> Seen(m) \/ m = n
  <2>1. /\ seen' \in Seq(Lines) /\ Len(seen') = Len(seen) + 1
        /\ \A j \in 1 .. Len(seen) : seen'[j] = seen[j]
        /\ seen'[Len(seen) + 1] = n
    BY <1>4, <1>5, AppendProperties
  <2>2. DOMAIN seen' = 1 .. Len(seen) + 1
    BY <2>1, LenProperties
  <2> QED BY <1>4, <2>1, <2>2 DEF Seen
<1>6. \A m : Seen(m) => Seen(m)'
  BY <1>5, TakenLaw DEF Seen
(* What is left stays left or is processed. *)
<1>7. ASSUME ~blind, NEW m \in 1 .. Len(home), Left(m)
      PROVE  Left(m)' \/ Seen(m)'
  <2>1. CASE \E k \in 1 .. Len(ahead) : ahead[k] = HeadOf(m)
    <3>1. PICK k \in 1 .. Len(ahead) : ahead[k] = HeadOf(m)
      BY <2>1
    <3>2. m \in Lines
      <4>1. ahead[k] \in Units
        BY <1>3
      <4> QED BY <3>1, <4>1, RankLaw DEF HeadOf
    <3>3. ~IsTail(ahead[k]) /\ ahead[k][1] = m /\ ahead[k][2] = "head"
      BY <3>1, <3>2, RankLaw DEF HeadOf
    <3>4. /\ IsTail(ahead[LineEnd]) /\ \A j \in 1 .. LineEnd - 1 : ~IsTail(ahead[j])
      BY LineEndLaw DEF TakeLine
    <3>5. k # LineEnd
      BY <3>3, <3>4
    <3>6. CASE k > LineEnd
      <4> DEFINE j == k - LineEnd
      <4>1. j \in 1 .. Len(ahead') /\ j + LineEnd = k
        BY <1>2, <3>6
      <4>2. ahead'[j] = ahead[k]
        BY <1>2, <4>1
      <4> QED BY <3>1, <4>1, <4>2 DEF Left, HeadOf
    <3>7. CASE k < LineEnd
      <4>1. k < Len(ahead) /\ k + 1 \in 1 .. Len(ahead) /\ k + 1 \in 1 .. LineEnd
        BY <1>2, <3>7
      <4>2. ahead[k + 1] = TailOf(m)
        BY <1>1, <1>7, <3>3, <4>1 DEF ReadInv, ClearInv
      <4>3. CASE k = 1
        <5>1. ahead[1] = HeadOf(m) /\ ahead[2] = TailOf(m) /\ Len(ahead) >= 2
          BY <1>2, <3>1, <4>1, <4>2, <4>3
        <5> QED BY <1>2, <1>5, <3>2, <5>1
      <4>4. CASE k # 1
        <5>1. k - 1 \in 1 .. LineEnd - 1 /\ k - 1 \in 1 .. Len(ahead) /\ k - 1 < Len(ahead) /\ k - 1 + 1 = k
          BY <1>2, <3>7, <4>4
        <5>2. ahead[k - 1] \in Units /\ ~IsTail(ahead[k - 1])
          BY <1>3, <3>4, <5>1
        <5>3. ahead[k - 1][2] = "head" /\ ahead[k - 1][1] \in Lines
          BY <5>2, RankLaw
        <5>4. ahead[k] = TailOf(ahead[k - 1][1])
          BY <1>1, <1>7, <5>1, <5>3 DEF ReadInv, ClearInv
        <5>5. IsTail(ahead[k])
          BY <5>3, <5>4, RankLaw
        <5> QED BY <3>3, <5>5
      <4> QED BY <4>3, <4>4
    <3> QED BY <1>2, <3>5, <3>6, <3>7
  <2>2. CASE /\ \A k \in 1 .. Len(ahead) : Rank(ahead[k]) < 2 * m
             /\ epoch[fd] = view => \E k \in pos + 1 .. Size(fd) : files[fd][k] = HeadOf(m)
    <3>1. \A k \in 1 .. Len(ahead') : k + LineEnd \in 1 .. Len(ahead)
      BY <1>2
    <3>2. \A k \in 1 .. Len(ahead') : Rank(ahead'[k]) < 2 * m
      BY <1>2, <2>2, <3>1
    <3> QED BY <1>1, <2>2, <3>2 DEF Left, HeadOf, Size, Rank, IsTail
  <2> QED BY <1>7, <2>1, <2>2 DEF Left
<1>8. ASSUME ~blind PROVE NothingPassed'
  <2>1. \A m \in 1 .. Len(home) \ skipped :
          home[m] = <<fd, view>> => Seen(m)' \/ m \in torn \/ Left(m)'
    BY <1>1, <1>6, <1>7, <1>8 DEF HoleInv, NothingPassed
  <2> QED BY <1>1, <2>1 DEF NothingPassed
<1>9. ASSUME ~blind PROVE NoHole'
  <2> SUFFICES ASSUME NEW n \in 1 .. Len(home), Seen(n)', NEW m \in 1 .. n - 1,
                      m \notin skipped, home[m] = home[n]
               PROVE  Seen(m)' \/ m \in torn
    BY <1>1 DEF NoHole
  <2>1. CASE Seen(n)
    BY <1>6, <1>9, <2>1 DEF HoleInv, NoHole
  <2>2. CASE ~Seen(n)
    <3>1. seen' # seen
      BY <2>2 DEF Seen
    <3>2. PICK l \in Lines : seen' = Append(seen, l) /\ Len(ahead) >= 2 /\ ahead[1] = HeadOf(l)
      BY <3>1, TakenLaw
    <3>3. l = n
      BY <1>5, <2>2, <3>2
    <3>4. 1 \in 1 .. Len(ahead) /\ ahead[1][1] = n /\ Rank(ahead[1]) = 2 * n
      BY <1>2, <3>2, <3>3, RankLaw DEF HeadOf
    <3>5. home[n] = <<fd, view>>
      BY <1>1, <1>9, <3>4 DEF ReadInv, ClearInv
    <3>6. n \in Int /\ Len(home) \in Nat /\ m \in 1 .. Len(home) /\ m < n /\ m \in Lines
      <4>1. Len(home) \in Nat /\ l \in Int /\ l =< MaxLines
        BY LenProperties, TailBoundAssumption DEF TypeOK, Lines
      <4> QED BY <3>3, <4>1, TailBoundAssumption DEF Lines
    <3>7. Seen(m) \/ m \in torn \/ Left(m)
      BY <1>1, <1>9, <3>5, <3>6 DEF HoleInv, NothingPassed
    <3>8. ~Left(m)
      <4>1. ~(Rank(ahead[1]) < 2 * m)
        BY <3>4, <3>6
      <4>2. ASSUME NEW k \in 1 .. Len(ahead), ahead[k] = HeadOf(m) PROVE FALSE
        <5>1. Rank(ahead[k]) = 2 * m
          BY <3>6, <4>2, RankLaw
        <5>2. k # 1 => Rank(ahead[1]) < Rank(ahead[k])
          <6>1. k # 1 => 1 \in 1 .. k - 1
            BY <1>2
          <6> QED BY <1>1, <6>1 DEF ReadInv, BufferInv
        <5> QED BY <3>4, <3>6, <4>1, <5>1, <5>2
      <4> QED BY <3>4, <4>1, <4>2 DEF Left
    <3> QED BY <1>6, <3>7, <3>8
  <2> QED BY <2>1, <2>2
<1> QED
  BY <1>1, <1>8, <1>9 DEF HoleInv

(* What is opened is read from its head; only the first open passes over what
   is there. *)
LEMMA HoleOpen ==
    ASSUME TypeOK, DiskInv, ReadInv, HoleInv, OpenLog
    PROVE  HoleInv'
<1>1. /\ fd' = path /\ view' = epoch[path] /\ ahead' = <<>> /\ path \in Inodes
      /\ pos' = (IF started THEN 0 ELSE Size(path))
      /\ skipped' = skipped \cup (IF started THEN {} ELSE 1 .. Len(home))
      /\ UNCHANGED <<files, epoch, home, seen, torn, blind>>
  BY DEF OpenLog, TypeOK, disk
<1>2. ASSUME ~blind PROVE NoHole'
  BY <1>1, <1>2 DEF HoleInv, NoHole, Seen
<1>3. ASSUME NEW m \in 1 .. Len(home), m \notin skipped', home[m] = <<path, epoch[path]>>
      PROVE  Left(m)'
  <2>1. started /\ pos' = 0
    BY <1>1, <1>3
  <2>2. \E k \in 1 .. Size(path) : files[path][k] = HeadOf(m)
    BY <1>1, <1>3 DEF DiskInv, HomeInv, HomeOf
  <2>3. DOMAIN ahead' = {} /\ Len(ahead') = 0
    BY <1>1
  <2> QED BY <1>1, <2>1, <2>2, <2>3 DEF Left, HeadOf, Size
<1>4. NothingPassed'
  BY <1>1, <1>3 DEF NothingPassed
<1> QED
  BY <1>1, <1>2, <1>4 DEF HoleInv

(* A fill moves a line that is left from the file to the buffer, or stops in
   front of it. *)
LEMMA HoleFill ==
    ASSUME TypeOK, DiskInv, ReadInv, HoleInv, Fill
    PROVE  HoleInv'
<1>1. /\ UNCHANGED <<phase, fd, view, files, epoch, home, seen, torn, skipped>> /\ phase # "closed"
      /\ (~blind' => ~blind /\ epoch[fd] = view)
  BY DEF Fill, disk
<1>2. PICK n \in 1 .. Size(fd) - pos :
        /\ pos' = pos + n
        /\ Len(ahead') = Len(ahead) + n
        /\ \A k \in 1 .. Len(ahead) : ahead'[k] = ahead[k]
        /\ \A k \in Len(ahead) + 1 .. Len(ahead) + n : ahead'[k] = files[fd][pos + k - Len(ahead)]
  BY FillLaw
<1>3. pos \in Nat /\ Len(ahead) \in Nat /\ fd \in Inodes /\ Size(fd) \in Nat
  BY FileLaw, LenProperties DEF TypeOK
<1>4. ASSUME ~blind' PROVE NoHole'
  BY <1>1, <1>4 DEF HoleInv, NoHole, Seen
<1>5. ASSUME ~blind', NEW m \in 1 .. Len(home), Left(m)
      PROVE  Left(m)'
  <2>1. CASE \E k \in 1 .. Len(ahead) : ahead[k] = HeadOf(m)
    <3>1. PICK k \in 1 .. Len(ahead) : ahead[k] = HeadOf(m)
      BY <2>1
    <3>2. k \in 1 .. Len(ahead') /\ ahead'[k] = HeadOf(m)
      BY <1>2, <1>3, <3>1
    <3> QED BY <3>2 DEF Left, HeadOf
  <2>2. CASE /\ \A k \in 1 .. Len(ahead) : Rank(ahead[k]) < 2 * m
             /\ \E k \in pos + 1 .. Size(fd) : files[fd][k] = HeadOf(m)
    <3>1. PICK k \in pos + 1 .. Size(fd) : files[fd][k] = HeadOf(m)
      BY <2>2
    <3>2. CASE k =< pos'
      <4> DEFINE j == Len(ahead) + k - pos
      <4>1. j \in Len(ahead) + 1 .. Len(ahead) + n /\ j \in 1 .. Len(ahead') /\ pos + j - Len(ahead) = k
        BY <1>2, <1>3, <3>1, <3>2
      <4> HIDE DEF j
      <4>2. ahead'[j] = HeadOf(m)
        BY <1>2, <3>1, <4>1
      <4> QED BY <4>1, <4>2 DEF Left, HeadOf
    <3>3. CASE k > pos'
      <4>1. k \in pos' + 1 .. Size(fd) /\ k \in 1 .. Size(fd)
        BY <1>2, <1>3, <3>1, <3>3
      <4>2. Rank(files[fd][k]) = 2 * m
        <5>1. files[fd][k] \in Units
          BY <1>3, <4>1, FileLaw
        <5>2. m \in Lines
          BY <3>1, <5>1, RankLaw DEF HeadOf
        <5> QED BY <3>1, <5>2, RankLaw
      <4>3. ASSUME NEW j \in 1 .. Len(ahead') PROVE Rank(ahead'[j]) < 2 * m
        <5>1. j \in 1 .. Len(ahead) \/ j \in Len(ahead) + 1 .. Len(ahead) + n
          BY <1>2, <1>3
        <5>2. CASE j \in 1 .. Len(ahead)
          BY <1>2, <2>2, <5>2
        <5>3. CASE j \in Len(ahead) + 1 .. Len(ahead) + n
          <6> DEFINE p == pos + j - Len(ahead)
          <6>1. p \in 1 .. k - 1 /\ ahead'[j] = files[fd][p]
            BY <1>2, <1>3, <3>1, <3>3, <5>3
          <6> HIDE DEF p
          <6>2. Rank(files[fd][p]) < Rank(files[fd][k])
            BY <1>3, <4>1, <6>1 DEF DiskInv, RankInv
          <6> QED BY <4>2, <6>1, <6>2
        <5> QED BY <5>1, <5>2, <5>3
      <4> QED BY <1>1, <3>1, <4>1, <4>3 DEF Left, HeadOf, Size, Rank, IsTail
    <3>4. k =< pos' \/ k > pos'
      BY <1>2, <1>3, <3>1
    <3> QED BY <3>2, <3>3, <3>4
  <2> QED BY <1>1, <1>5, <2>1, <2>2 DEF Left
<1>6. ASSUME ~blind' PROVE NothingPassed'
  BY <1>1, <1>5, <1>6 DEF HoleInv, NothingPassed, Seen
<1> QED
  BY <1>4, <1>6 DEF HoleInv

(* At the end of the file nothing is left but what the buffer holds, and that
   is torn. *)
LEMMA HoleEof ==
    ASSUME TypeOK, DiskInv, ReadInv, HoleInv, HitEof
    PROVE  HoleInv'
<1>1. /\ UNCHANGED <<fd, pos, view, files, epoch, home, seen, skipped, blind>> /\ phase # "closed"
      /\ pos >= Size(fd) /\ torn' = torn \cup {ahead[i][1] : i \in DOMAIN ahead} /\ ahead' = <<>>
  BY DEF HitEof, disk
<1>2. pos \in Nat /\ Size(fd) \in Nat /\ DOMAIN ahead = 1 .. Len(ahead)
  BY FileLaw, LenProperties DEF TypeOK
<1>3. ASSUME ~blind PROVE NoHole'
  BY <1>1, <1>3 DEF HoleInv, NoHole, Seen
<1>4. ASSUME NEW m \in 1 .. Len(home), Left(m)
      PROVE  m \in torn' \/ Left(m)'
  <2>1. CASE \E k \in 1 .. Len(ahead) : ahead[k] = HeadOf(m)
    BY <1>1, <1>2, <2>1 DEF HeadOf
  <2>2. CASE epoch[fd] = view => \E k \in pos + 1 .. Size(fd) : files[fd][k] = HeadOf(m)
    <3>1. \A k \in pos + 1 .. Size(fd) : FALSE
      BY <1>1, <1>2
    <3>2. epoch'[fd'] # view'
      BY <1>1, <2>2, <3>1
    <3>3. Len(ahead') = 0
      BY <1>1
    <3> QED BY <3>2, <3>3 DEF Left
  <2> QED BY <1>4, <2>1, <2>2 DEF Left
<1>5. ASSUME ~blind PROVE NothingPassed'
  BY <1>1, <1>4, <1>5 DEF HoleInv, NothingPassed, Seen
<1> QED
  BY <1>1, <1>3, <1>5 DEF HoleInv

(* No step passes over a line. *)
LEMMA HoleStep ==
    ASSUME TypeOK, DiskInv, ReadInv, HoleInv, [Next]_tailVars
    PROVE  HoleInv'
<1>1. CASE Poll
  <2>1. /\ UNCHANGED <<fd, pos, ahead, view, files, epoch, home, seen, torn, skipped>> /\ phase # "closed"
        /\ (~blind' => ~blind)
    BY <1>1 DEF Poll, disk
  <2> QED BY <2>1 DEF HoleInv, NoHole, NothingPassed, Seen, Left, HeadOf, Size, Rank, IsTail
<1>2. CASE Fail
  <2>1. phase' = "closed" /\ UNCHANGED <<home, seen, torn, skipped, blind>>
    BY <1>2 DEF Fail, ReadFails, StatFails, disk
  <2> QED BY <2>1 DEF HoleInv, NoHole, NothingPassed, Seen
<1>3. CASE UNCHANGED tailVars
  BY <1>3 DEF tailVars, disk, reader, record, HoleInv, NoHole, NothingPassed, Seen, Left, HeadOf, Size, Rank, IsTail
<1> QED
  BY <1>1, <1>2, <1>3, HoleWorld, HoleOpen, HoleFill, HoleTake, HoleEof DEF Next, Follow

-----------------------------------------------------------------------------
(* The theorems. *)

TailInv == TypeOK /\ DiskInv /\ ReadInv /\ OrderInv /\ CountInv /\ HoleInv

(* The log and its reader at the start. *)
LEMMA TailInit == Init => TailInv
<1> SUFFICES ASSUME Init PROVE TailInv
  OBVIOUS
<1>1. TypeOK
  <2>1. /\ 1 \in Inodes /\ 1 \in 1 .. MaxLines + 1 /\ 0 \in 0 .. 0
        /\ 0 \in 0 .. MaxTruncations /\ 0 \in 0 .. MaxFaults
    BY TailBoundAssumption DEF Inodes
  <2>2. /\ files \in [Inodes -> Seq(Units)] /\ epoch \in [Inodes -> 0 .. MaxTruncations]
        /\ ahead \in Seq(Units) /\ home \in Seq(Inodes \X Nat) /\ seen \in Seq(Lines)
    <3>1. \A S : <<>> \in Seq(S)
      OBVIOUS
    <3> QED BY <2>1, <3>1 DEF Init
  <2> QED BY <2>1, <2>2 DEF Init, TypeOK
<1>2. DiskInv /\ ReadInv
  BY DiskInit, ReadInit
<1>3. seen = <<>> /\ skipped = {} /\ Len(home) = 0 /\ phase = "closed" /\ faults = 0
  BY DEF Init
<1>4. OrderInv
  BY <1>3 DEF OrderInv
<1>5. CountInv
  <2>1. \A n \in Lines : Times(n) = 0
    BY <1>3, FS_EmptySet DEF Times
  <2> QED BY <1>3, <2>1 DEF CountInv
<1>6. HoleInv
  BY <1>3 DEF HoleInv, NoHole, NothingPassed
<1> QED
  BY <1>1, <1>2, <1>4, <1>5, <1>6 DEF TailInv

(* The tailer with its log: what is in the files, what the reader holds and what
   it has processed belong together, however the file is written, rolled and
   truncated under it. *)
THEOREM TailInvariant == Spec => []TailInv
<1>1. TailInv /\ [Next]_tailVars => TailInv'
  <2> SUFFICES ASSUME TailInv, [Next]_tailVars PROVE TailInv'
    OBVIOUS
  <2>1. TypeOK /\ DiskInv /\ ReadInv /\ OrderInv /\ CountInv /\ HoleInv
    BY DEF TailInv
  <2>2. TypeOK'
    BY <2>1, TypeStep DEF ReadInv
  <2>3. DiskInv' /\ ReadInv'
    BY <2>1, DiskStep, ReadStep
  <2>4. OrderInv' /\ CountInv' /\ HoleInv'
    BY <2>1, OrderStep, CountStep, HoleStep
  <2> QED BY <2>2, <2>3, <2>4 DEF TailInv
<1> QED
  BY <1>1, TailInit, PTL DEF Spec

(* The variables of the tailer keep their types: the count of consumed bytes
   never passes the position in the file. *)
THEOREM TailTypes == Spec => []TypeOK
<1>1. TailInv => TypeOK
  BY DEF TailInv
<1> QED
  BY <1>1, TailInvariant, PTL

(* Without an error lines are processed in the order they were written, each at
   most once, and none that was there before the start: polls, rolls and
   truncations, noticed or not, take nothing twice. *)
THEOREM LinesInOrder == Spec => []SeenInOrder
<1>1. TailInv => SeenInOrder
  BY DEF TailInv, OrderInv, SeenInOrder
<1> QED
  BY <1>1, TailInvariant, PTL

(* Each error that makes Run start over costs at most one more reading of a
   line. *)
THEOREM RereadOncePerFault == Spec => []ReadAgainOncePerFault
<1>1. ASSUME TailInv PROVE ReadAgainOncePerFault
  <2>1. seen \in Seq(Lines) /\ Len(seen) \in Nat /\ DOMAIN seen = 1 .. Len(seen) /\ faults \in Nat
    BY <1>1, LenProperties DEF TailInv, TypeOK
  <2>2. ASSUME NEW n \in Lines PROVE Times(n) =< 1 + faults
    <3>1. IsFiniteSet(1 .. Len(seen)) /\ {i \in DOMAIN seen : seen[i] = n} \subseteq 1 .. Len(seen)
      BY <2>1, FS_Interval
    <3>2. Times(n) \in Nat
      BY <3>1, FS_Subset, FS_CardinalityType DEF Times
    <3>3. Times(n) + (IF Ahead(n) THEN 1 ELSE 0) =< 1 + faults
      BY <1>1 DEF TailInv, CountInv
    <3> QED BY <2>1, <3>2, <3>3
  <2> QED BY <2>2 DEF ReadAgainOncePerFault, Times
<1> QED
  BY <1>1, TailInvariant, PTL

(* When a line has been processed, so have those before it in the same file,
   unless they were torn at the end of the file or the reader went on with a
   truncated one. *)
THEOREM HolesExplained == Spec => []HolesHaveAReason
<1>1. ASSUME TailInv PROVE HolesHaveAReason
  <2> SUFFICES ASSUME ~blind, NEW n \in Lines, Seen(n), NEW m \in 1 .. n - 1,
                      Owed(m), home[m] = home[n]
               PROVE  Seen(m) \/ m \in torn
    BY DEF HolesHaveAReason
  <2>1. /\ seen \in Seq(Lines) /\ Len(seen) \in Nat /\ DOMAIN seen = 1 .. Len(seen)
        /\ nextLine \in Int /\ n \in Int /\ n >= 1
    BY <1>1, LenProperties, TailBoundAssumption DEF TailInv, TypeOK, Lines
  <2>2. n < nextLine
    BY <1>1, <2>1 DEF Seen, TailInv, ReadInv, PlaceInv
  <2>3. n \in 1 .. Len(home)
    <3>1. Len(home) = IF half THEN nextLine ELSE nextLine - 1
      BY <1>1 DEF TailInv, DiskInv, WriterInv
    <3> QED BY <2>1, <2>2, <3>1
  <2> QED BY <1>1, <2>3 DEF TailInv, HoleInv, NoHole, Owed
<1> QED
  BY <1>1, TailInvariant, PTL

====
