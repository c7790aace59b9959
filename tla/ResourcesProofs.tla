-------------------------- MODULE ResourcesProofs --------------------------
(***************************************************************************)
(* No physical page is lost or given twice, a process that runs reaches no *)
(* page of another one, the loader writes to memory of its process only,   *)
(* and no device is held for a slot that is free: for any sizes of pages,  *)
(* tables and directories, any number of processes, any map of the memory  *)
(* and any programs.                                                       *)
(***************************************************************************)
EXTENDS Resources, FiniteSetTheorems, TLAPS

-----------------------------------------------------------------------------
(* Numbers of pages.                                                       *)

LEMMA Sizes ==
  /\ MAX_PROC \in Nat \ {0}
  /\ MEM_PAGE_SIZE_BYTES \in Nat \ {0}
  /\ MEM_MAX_PAGE_ENTRY \in Nat \ {0}
  /\ MEM_MAX_DIR_ENTRY \in Nat
  /\ MEM_PHYSICAL_PAGE_COUNT \in Nat
  /\ MEM_VIRTUAL_RESERVED_KERNEL_PAGE_TABLE_COUNT \in Nat \ {0}
  /\ MEM_VIRTUAL_RESERVED_KERNEL_PAGE_TABLE_COUNT <= MEM_VIRTUAL_USER_PAGE_TABLE_COUNT
  /\ MEM_VIRTUAL_USER_PAGE_TABLE_COUNT \in Nat
  /\ MEM_VIRTUAL_USER_PAGE_TABLE_COUNT <= MEM_MAX_DIR_ENTRY
  /\ MEM_VIRTUAL_USER_MAX_PAGE_TABLE_COUNT \in Nat
  /\ MEM_VIRTUAL_USER_MAX_PAGE_TABLE_COUNT < MEM_MAX_DIR_ENTRY
<1>1. /\ MAX_PROC \in Nat \ {0} /\ MEM_PAGE_SIZE_BYTES \in Nat \ {0}
      /\ MEM_MAX_PAGE_ENTRY \in Nat \ {0} /\ MEM_MAX_DIR_ENTRY \in Nat
      /\ MEM_PHYSICAL_PAGE_COUNT \in Nat
      /\ MEM_VIRTUAL_RESERVED_KERNEL_PAGE_TABLE_COUNT \in 1 .. MEM_VIRTUAL_USER_PAGE_TABLE_COUNT
      /\ MEM_VIRTUAL_USER_PAGE_TABLE_COUNT <= MEM_MAX_DIR_ENTRY
  BY PagingAssumption DEF PagingAssumption
<1>2. MEM_VIRTUAL_USER_PAGE_TABLE_COUNT \in Nat
  BY <1>1 DEF MEM_VIRTUAL_USER_PAGE_TABLE_COUNT
<1> QED BY <1>1, <1>2 DEF MEM_VIRTUAL_USER_MAX_PAGE_TABLE_COUNT

\* Multiples of a size lie at least the size apart.
LEMMA Multiples ==
  ASSUME NEW n \in Nat \ {0}, NEW a \in Int, NEW b \in Int, a < b PROVE n * a + n <= n * b
<1>1. (b - a - 1) * n >= 0
  OBVIOUS
<1>2. (b - a - 1) * n = n * b - n * a - n
  OBVIOUS
<1>3. n * a \in Int /\ n * b \in Int
  OBVIOUS
<1> QED BY <1>1, <1>2, <1>3

\* Division with a remainder, and that there is one way to do it.
LEMMA Remainder ==
  ASSUME NEW n \in Int, n > 0, NEW x \in Int PROVE x = n * (x \div n) + (x % n)
BY SMT

LEMMA Division ==
  ASSUME NEW n \in Nat \ {0}, NEW x \in Nat
  PROVE /\ x \div n \in Nat /\ x % n \in 0 .. n - 1 /\ x = n * (x \div n) + (x % n)
        /\ x \div n <= x
<1>1. x \div n \in Int /\ x % n \in 0 .. n - 1
  OBVIOUS
<1>2. x = n * (x \div n) + (x % n)
  BY Remainder
<1>3. x \div n >= 0
  OBVIOUS
<1>4. x \div n <= x
  OBVIOUS
<1> QED BY <1>1, <1>2, <1>3, <1>4

LEMMA Quotient ==
  ASSUME NEW n \in Nat \ {0}, NEW d \in Nat, NEW e \in 0 .. n - 1
  PROVE /\ n * d + e \in Nat /\ (n * d + e) \div n = d /\ (n * d + e) % n = e
<1> DEFINE x == n * d + e
<1>1. x \in Nat
  OBVIOUS
<1>2. x \div n \in Nat /\ x % n \in 0 .. n - 1 /\ x = n * (x \div n) + (x % n)
  BY <1>1, Division
<1> DEFINE q == x \div n
<1> DEFINE r == x % n
<1> HIDE DEF q, r
<1>3. q \in Nat /\ r \in 0 .. n - 1 /\ n * d + e = n * q + r /\ n * q \in Int /\ n * d \in Int
  BY <1>2 DEF q, r
<1>4. ~(q < d)
  BY <1>3, Multiples
<1>5. ~(d < q)
  BY <1>3, Multiples
<1>6. q = d
  BY <1>3, <1>4, <1>5
<1>7. r = e
  BY <1>3, <1>6
<1> QED BY <1>1, <1>6, <1>7 DEF q, r

\* A page of user space is an entry of a table that the directory may name.
LEMMA PageParts ==
  /\ \A x \in UserPage : /\ x \in Nat /\ x \div MEM_MAX_PAGE_ENTRY \in UserDir
                         /\ x % MEM_MAX_PAGE_ENTRY \in Entry
                         /\ x = MEM_MAX_PAGE_ENTRY * (x \div MEM_MAX_PAGE_ENTRY)
                                  + (x % MEM_MAX_PAGE_ENTRY)
  /\ \A d \in UserDir, e \in Entry :
       /\ MEM_MAX_PAGE_ENTRY * d + e \in UserPage
       /\ (MEM_MAX_PAGE_ENTRY * d + e) \div MEM_MAX_PAGE_ENTRY = d
       /\ (MEM_MAX_PAGE_ENTRY * d + e) % MEM_MAX_PAGE_ENTRY = e
<1>1. ASSUME NEW x \in UserPage
      PROVE /\ x \in Nat /\ x \div MEM_MAX_PAGE_ENTRY \in UserDir
            /\ x % MEM_MAX_PAGE_ENTRY \in Entry
            /\ x = MEM_MAX_PAGE_ENTRY * (x \div MEM_MAX_PAGE_ENTRY) + (x % MEM_MAX_PAGE_ENTRY)
  <2>1. x \in Nat /\ x \div MEM_MAX_PAGE_ENTRY \in UserDir
    BY Sizes DEF UserPage, Page
  <2> QED BY <2>1, Sizes, Division DEF Entry
<1>2. ASSUME NEW d \in UserDir, NEW e \in Entry
      PROVE /\ MEM_MAX_PAGE_ENTRY * d + e \in UserPage
            /\ (MEM_MAX_PAGE_ENTRY * d + e) \div MEM_MAX_PAGE_ENTRY = d
            /\ (MEM_MAX_PAGE_ENTRY * d + e) % MEM_MAX_PAGE_ENTRY = e
  <2>1. /\ d \in Nat /\ d < MEM_MAX_DIR_ENTRY /\ e \in 0 .. MEM_MAX_PAGE_ENTRY - 1
        /\ MEM_MAX_PAGE_ENTRY \in Nat \ {0} /\ MEM_MAX_DIR_ENTRY \in Nat
    BY Sizes DEF UserDir, Entry
  <2>2. /\ MEM_MAX_PAGE_ENTRY * d + e \in Nat
        /\ (MEM_MAX_PAGE_ENTRY * d + e) \div MEM_MAX_PAGE_ENTRY = d
        /\ (MEM_MAX_PAGE_ENTRY * d + e) % MEM_MAX_PAGE_ENTRY = e
    BY <2>1, Quotient
  <2>3. MEM_MAX_PAGE_ENTRY * d + MEM_MAX_PAGE_ENTRY <= MEM_MAX_PAGE_ENTRY * MEM_MAX_DIR_ENTRY
    BY <2>1, Multiples
  <2>4. MEM_MAX_PAGE_ENTRY * d + e < MEM_MAX_DIR_ENTRY * MEM_MAX_PAGE_ENTRY
    BY <2>1, <2>3
  <2> QED BY <2>1, <2>2, <2>4 DEF UserPage, Page, MEM_MAX_VIRTUAL_PAGE_COUNT
<1> QED BY <1>1, <1>2
\* A sum that may go once around.
LEMMA Wrapped ==
  ASSUME NEW n \in Nat \ {0}, NEW x \in 0 .. 2 * n - 1
  PROVE x % n = IF x < n THEN x ELSE x - n
<1>1. CASE x < n
  <2>1. (n * 0 + x) % n = x
    BY <1>1, Quotient
  <2> QED BY <1>1, <2>1
<1>2. CASE ~(x < n)
  <2>1. x - n \in 0 .. n - 1 /\ 1 \in Nat
    BY <1>2
  <2>2. (n * 1 + (x - n)) % n = x - n
    BY <2>1, Quotient
  <2>3. n * 1 + (x - n) = x
    OBVIOUS
  <2> QED BY <1>2, <2>2, <2>3
<1> QED BY <1>1, <1>2

\* The pages up to an address: enough for every byte before it, none too many.
Pages(x) ==
  x \div MEM_PAGE_SIZE_BYTES + (IF TRUE /\ x % MEM_PAGE_SIZE_BYTES # 0 THEN 1 ELSE 0)

LEMMA Ceiling ==
  ASSUME NEW x \in Nat
  PROVE /\ Pages(x) \in Nat
        /\ \A b \in Nat : b < x => b \div MEM_PAGE_SIZE_BYTES < Pages(x)
        /\ \A m \in Nat : x <= MEM_PAGE_SIZE_BYTES * m => Pages(x) <= m
<1> DEFINE n == MEM_PAGE_SIZE_BYTES
<1> DEFINE q == x \div n
<1> DEFINE r == x % n
<1>0. n \in Nat \ {0}
  BY Sizes
<1> HIDE DEF n
<1>1. q \in Nat /\ r \in 0 .. n - 1 /\ x = n * q + r
  BY <1>0, Division
<1>2. Pages(x) = IF r # 0 THEN q + 1 ELSE q
  BY <1>1 DEF Pages, n
<1> HIDE DEF q, r
<1>a. n * q \in Int
  BY <1>0, <1>1
<1>3. Pages(x) \in Nat
  BY <1>1, <1>2
<1>4. ASSUME NEW b \in Nat, b < x PROVE b \div n < Pages(x)
  <2> DEFINE d == b \div n
  <2> DEFINE e == b % n
  <2>1. d \in Nat /\ e \in 0 .. n - 1 /\ b = n * d + e
    BY <1>0, Division
  <2> HIDE DEF d, e
  <2>a. n * d \in Int
    BY <1>0, <2>1
  <2>2. ~(q < d)
    BY <1>0, <1>1, <1>a, <1>4, <2>1, <2>a, Multiples
  <2>3. q = d => r # 0
    BY <1>0, <1>1, <1>a, <1>4, <2>1, <2>a
  <2>4. d < Pages(x)
    BY <1>1, <1>2, <2>1, <2>2, <2>3
  <2> QED BY <2>4 DEF d
<1>5. ASSUME NEW m \in Nat, x <= n * m PROVE Pages(x) <= m
  <2>1. n * m \in Int
    BY <1>0
  <2>2. ~(m < q)
    BY <1>0, <1>1, <1>a, <1>5, <2>1, Multiples
  <2>3. q = m => r = 0
    BY <1>0, <1>1, <1>a, <1>5, <2>1
  <2> QED BY <1>1, <1>2, <2>2, <2>3
<1> QED BY <1>3, <1>4, <1>5 DEF n

\* The pages below the kernel's are the user's.
LEMMA UserPages ==
  ASSUME NEW x \in Nat, x < MEM_MAX_PAGE_ENTRY * MEM_VIRTUAL_USER_MAX_PAGE_TABLE_COUNT
  PROVE x \in UserPage
<1> DEFINE n == MEM_MAX_PAGE_ENTRY
<1> DEFINE u == MEM_VIRTUAL_USER_MAX_PAGE_TABLE_COUNT
<1>0. n \in Nat \ {0} /\ u \in Nat /\ MEM_MAX_DIR_ENTRY \in Nat /\ u < MEM_MAX_DIR_ENTRY /\ x < n * u
  BY Sizes
<1> HIDE DEF n, u
<1>1. /\ x \div n \in Nat /\ x % n \in 0 .. n - 1 /\ x = n * (x \div n) + (x % n)
  BY <1>0, Division
<1>2. ~(x \div n >= u)
  <2>1. CASE x \div n = u
    BY <1>0, <1>1, <2>1
  <2>2. CASE u < x \div n
    <3> DEFINE q == x \div n
    <3>1. n * u + n <= n * q
      BY <1>0, <1>1, <2>2, Multiples
    <3>2. n * q \in Int /\ n * u \in Int /\ x >= n * q
      BY <1>0, <1>1
    <3> QED BY <1>0, <3>1, <3>2
  <2> QED BY <1>0, <1>1, <2>1, <2>2
<1>3. x < n * MEM_MAX_DIR_ENTRY
  <2>1. n * u + n <= n * MEM_MAX_DIR_ENTRY
    BY <1>0, Multiples
  <2>2. n * u \in Int /\ n * MEM_MAX_DIR_ENTRY \in Int
    BY <1>0
  <2> QED BY <1>0, <2>1, <2>2
<1>4. n * MEM_MAX_DIR_ENTRY = MEM_MAX_DIR_ENTRY * n
  BY <1>0
<1> QED BY <1>0, <1>1, <1>2, <1>3, <1>4
        DEF UserPage, Page, UserDir, MEM_MAX_VIRTUAL_PAGE_COUNT, n, u
\* Later bytes lie in later pages.
LEMMA Ordered ==
  ASSUME NEW a \in Nat, NEW b \in Nat, a <= b
  PROVE /\ a \div MEM_PAGE_SIZE_BYTES \in Nat /\ b \div MEM_PAGE_SIZE_BYTES \in Nat
        /\ a \div MEM_PAGE_SIZE_BYTES <= b \div MEM_PAGE_SIZE_BYTES
<1> DEFINE n == MEM_PAGE_SIZE_BYTES
<1> DEFINE c == a \div n
<1> DEFINE d == b \div n
<1>0. n \in Nat \ {0}
  BY Sizes
<1> HIDE DEF n
<1>1. /\ c \in Nat /\ a % n \in 0 .. n - 1 /\ a = n * c + (a % n)
      /\ d \in Nat /\ b % n \in 0 .. n - 1 /\ b = n * d + (b % n)
  BY <1>0, Division
<1> HIDE DEF c, d
<1>2. n * c \in Int /\ n * d \in Int
  BY <1>0, <1>1
<1>3. ~(d < c)
  BY <1>0, <1>1, <1>2, Multiples
<1>4. c <= d
  BY <1>1, <1>3
<1> QED BY <1>1, <1>4 DEF c, d, n

\* A set of numbers with a member has a least one.
LEMMA Least ==
  ASSUME NEW S, S \subseteq Nat, S # {} PROVE Min(S) \in S
<1> DEFINE R == OpToRel(<, Nat)
<1>1. \A x, y \in Nat : y < x => <<y, x>> \in R
  BY Zenon DEF OpToRel
<1>2. \E x \in S : \A y \in S : ~(<<y, x>> \in R)
  BY NatLessThanWellFounded, WFMin
<1> HIDE DEF R
<1>3. PICK x \in S : \A y \in S : ~(<<y, x>> \in R)
  BY <1>2
<1>4. \A y \in S : ~(y < x)
  BY <1>1, <1>3
<1>5. \A y \in S : x <= y
  BY <1>4
<1> QED BY <1>5, Zenon DEF Min

\* There is a first page, and it is the kernel's.
LEMMA FirstFrame == 0 \in Frame /\ Reserved(0)
<1>1. MEM_VIRTUAL_USER_PAGE_TABLE_COUNT <= MEM_PHYSICAL_PAGE_COUNT
  BY Sizes, Division DEF MEM_VIRTUAL_USER_PAGE_TABLE_COUNT
<1>2. 0 \in Frame
  BY <1>1, Sizes DEF Frame
<1>3. MEM_VIRTUAL_RESERVED_KERNEL_PAGE_TABLE_COUNT * MEM_MAX_PAGE_ENTRY > 0
  BY Sizes
<1> QED BY <1>2, <1>3 DEF Reserved

-----------------------------------------------------------------------------
(* The tables of a process.                                                *)

LEMMA NoneIsNoTable == NONE \notin Table /\ Table \subseteq Nat /\ Frame \subseteq Nat
BY DEF NONE, Table, Frame

LEMMA AddressType ==
  ASSUME NEW tables \in PageTables, NEW x \in UserPage
  PROVE /\ FrameAddress(tables, x) \in Frame
        /\ x \div MEM_MAX_PAGE_ENTRY \in UserDir /\ x % MEM_MAX_PAGE_ENTRY \in Entry
        /\ tables.pageDirectory[x \div MEM_MAX_PAGE_ENTRY] \in Table \cup {NONE}
<1>1. x \div MEM_MAX_PAGE_ENTRY \in UserDir /\ x % MEM_MAX_PAGE_ENTRY \in Entry
  BY PageParts
<1> QED BY <1>1, FirstFrame DEF FrameAddress, PageTables

LEMMA EmptyTables ==
  NoTables \in PageTables /\ Sound(NoTables) /\ \A x \in UserPage : FrameAddress(NoTables, x) = 0
<1>1. NoTables \in PageTables
  BY FirstFrame DEF NoTables, PageTables
<1>2. Sound(NoTables)
  BY NoneIsNoTable DEF Sound, NoTables
<1>3. ASSUME NEW x \in UserPage PROVE FrameAddress(NoTables, x) = 0
  BY AddressType, <1>1 DEF FrameAddress, NoTables
<1> QED BY <1>1, <1>2, <1>3

\* A table that is put in the directory changes no page.
LEMMA DirAssigned ==
  ASSUME NEW tables \in PageTables, Sound(tables), NEW d \in UserDir,
         tables.pageDirectory[d] = NONE, getFreeTable(tables) # {}
  PROVE LET new == assignDirEntry(tables, d)
        IN /\ new \in PageTables /\ Sound(new) /\ new.pageDirectory[d] # NONE
           /\ \A x \in UserPage : FrameAddress(new, x) = FrameAddress(tables, x)
<1> DEFINE t == Min(getFreeTable(tables))
<1> DEFINE new == assignDirEntry(tables, d)
<1>1. t \in Table /\ t \notin tables.pageTableInfo /\ t # NONE
  BY Least, NoneIsNoTable DEF getFreeTable
<1>2. /\ new = [tables EXCEPT !.pageDirectory[d] = t, !.pageTableInfo = @ \cup {t}]
      /\ tables.pageDirectory \in [UserDir -> Table \cup {NONE}]
      /\ tables.pageTables \in [Table -> [Entry -> Frame]]
      /\ tables.pageTableInfo \in SUBSET Table
  BY DEF assignDirEntry, PageTables
<1> HIDE DEF t, new
<1>3. /\ new \in PageTables /\ new.pageTables = tables.pageTables
      /\ new.pageTableInfo = tables.pageTableInfo \cup {t}
      /\ new.pageDirectory = [tables.pageDirectory EXCEPT ![d] = t]
  BY <1>1, <1>2 DEF PageTables
<1>4. \A e \in UserDir : new.pageDirectory[e] = IF e = d THEN t ELSE tables.pageDirectory[e]
  BY <1>2, <1>3
<1>5. \A e \in UserDir : tables.pageDirectory[e] # t
  BY <1>1 DEF Sound
<1>6. Sound(new)
  <2>1. ASSUME NEW a \in UserDir, NEW b \in UserDir, new.pageDirectory[a] = new.pageDirectory[b]
        PROVE a = b \/ new.pageDirectory[a] = NONE
    BY <1>4, <1>5, <2>1 DEF Sound
  <2>2. ASSUME NEW u \in Table
        PROVE /\ u \in new.pageTableInfo <=> \E a \in UserDir : new.pageDirectory[a] = u
              /\ u \notin new.pageTableInfo => \A e \in Entry : new.pageTables[u][e] = 0
    <3>1. u \in tables.pageTableInfo <=> \E a \in UserDir : tables.pageDirectory[a] = u
      BY DEF Sound
    <3>2. (\E a \in UserDir : new.pageDirectory[a] = u)
            <=> u = t \/ \E a \in UserDir : tables.pageDirectory[a] = u
      BY <1>4, NoneIsNoTable
    <3> QED BY <1>3, <3>1, <3>2 DEF Sound
  <2> QED BY <2>1, <2>2 DEF Sound
<1>7. ASSUME NEW x \in UserPage PROVE FrameAddress(new, x) = FrameAddress(tables, x)
  <2>1. x \div MEM_MAX_PAGE_ENTRY \in UserDir /\ x % MEM_MAX_PAGE_ENTRY \in Entry
    BY PageParts
  <2>2. \A e \in Entry : tables.pageTables[t][e] = 0
    BY <1>1 DEF Sound
  <2> QED BY <1>1, <1>3, <1>4, <2>1, <2>2 DEF FrameAddress
<1> QED BY <1>1, <1>3, <1>4, <1>6, <1>7 DEF new

\* An entry of a table in use is one page of the process and no other.
LEMMA PageAssigned ==
  ASSUME NEW tables \in PageTables, Sound(tables), NEW page \in UserPage, NEW f \in Frame,
         tables.pageDirectory[page \div MEM_MAX_PAGE_ENTRY] # NONE
  PROVE LET new == assignVirtualPage(tables, page, f)
        IN /\ new \in PageTables /\ Sound(new)
           /\ \A x \in UserPage :
                FrameAddress(new, x) = IF x = page THEN f ELSE FrameAddress(tables, x)
<1> DEFINE d == page \div MEM_MAX_PAGE_ENTRY
<1> DEFINE e == page % MEM_MAX_PAGE_ENTRY
<1> DEFINE t == tables.pageDirectory[d]
<1> DEFINE new == assignVirtualPage(tables, page, f)
<1>1. d \in UserDir /\ e \in Entry /\ t \in Table /\ page = MEM_MAX_PAGE_ENTRY * d + e
  BY PageParts DEF PageTables
<1>2. /\ new = [tables EXCEPT !.pageTables[t][e] = f]
      /\ tables.pageDirectory \in [UserDir -> Table \cup {NONE}]
      /\ tables.pageTables \in [Table -> [Entry -> Frame]]
      /\ t \in tables.pageTableInfo
  BY <1>1 DEF assignVirtualPage, PageTables, Sound
<1>a. tables.pageDirectory[d] = t
  OBVIOUS
<1> HIDE DEF t, new
<1>3. /\ new.pageDirectory = tables.pageDirectory
      /\ new.pageTableInfo = tables.pageTableInfo
      /\ new.pageTables = [tables.pageTables EXCEPT ![t] = [@ EXCEPT ![e] = f]]
      /\ new \in PageTables
  BY <1>1, <1>2 DEF PageTables
<1>4. \A u \in Table, a \in Entry :
        new.pageTables[u][a] = IF u = t /\ a = e THEN f ELSE tables.pageTables[u][a]
  BY <1>1, <1>2, <1>3
<1>5. Sound(new)
  BY <1>2, <1>3, <1>4 DEF Sound
<1>6. ASSUME NEW x \in UserPage
      PROVE FrameAddress(new, x) = IF x = page THEN f ELSE FrameAddress(tables, x)
  <2> DEFINE c == x \div MEM_MAX_PAGE_ENTRY
  <2> DEFINE a == x % MEM_MAX_PAGE_ENTRY
  <2>1. c \in UserDir /\ a \in Entry /\ x = MEM_MAX_PAGE_ENTRY * c + a
    BY PageParts
  <2>2. x # page => c # d \/ a # e
    BY <1>1, <2>1
  <2>3. /\ FrameAddress(new, x) =
             IF tables.pageDirectory[c] = NONE THEN 0 ELSE new.pageTables[tables.pageDirectory[c]][a]
        /\ FrameAddress(tables, x) =
             IF tables.pageDirectory[c] = NONE THEN 0 ELSE tables.pageTables[tables.pageDirectory[c]][a]
    BY <1>3 DEF FrameAddress
  <2>4. x = page => c = d /\ a = e
    OBVIOUS
  <2> HIDE DEF c, a, d, e
  <2>5. tables.pageDirectory[c] = t => c = d
    BY <1>1, <1>a, <2>1, NoneIsNoTable DEF Sound
  <2> QED BY <1>1, <1>2, <1>4, <1>a, <2>1, <2>2, <2>3, <2>4, <2>5, NoneIsNoTable
<1> QED BY <1>3, <1>5, <1>6 DEF new

\* k_paging_procCleanup finds a page that the process has once, where it has it.
LEMMA HeldOnce ==
  ASSUME NEW p \in Proc, processPageTables[p] \in PageTables, Sound(processPageTables[p]),
         NEW f \in Frame \ {0},
         \A x, y \in UserPage :
            FrameAddress(processPageTables[p], x) = f /\ FrameAddress(processPageTables[p], y) = f => x = y
  PROVE Cardinality(Holding(p, f)) =
          IF \E x \in UserPage : FrameAddress(processPageTables[p], x) = f THEN 1 ELSE 0
<1> DEFINE tables == processPageTables[p]
<1> DEFINE At(x) ==
      <<tables.pageDirectory[x \div MEM_MAX_PAGE_ENTRY], x % MEM_MAX_PAGE_ENTRY>>
<1>0. tables \in PageTables /\ Sound(tables) /\ tables.pageTableInfo \subseteq Table
  BY DEF PageTables
<1>1. ASSUME NEW h \in Holding(p, f)
      PROVE \E x \in UserPage : FrameAddress(tables, x) = f /\ h = At(x)
  <2>1. /\ h \in tables.pageTableInfo \X Entry /\ tables.pageTables[h[1]][h[2]] = f
    BY DEF Holding
  <2>2. h[1] \in tables.pageTableInfo /\ h[1] \in Table /\ h[2] \in Entry /\ h = <<h[1], h[2]>>
    BY <1>0, <2>1
  <2>3. PICK d \in UserDir : tables.pageDirectory[d] = h[1]
    BY <1>0, <2>2 DEF Sound
  <2> DEFINE x == MEM_MAX_PAGE_ENTRY * d + h[2]
  <2>4. x \in UserPage /\ x \div MEM_MAX_PAGE_ENTRY = d /\ x % MEM_MAX_PAGE_ENTRY = h[2]
    BY <2>2, PageParts
  <2> HIDE DEF x
  <2>5. FrameAddress(tables, x) = f
    BY <2>1, <2>2, <2>3, <2>4, NoneIsNoTable DEF FrameAddress
  <2> QED BY <2>2, <2>3, <2>4, <2>5
<1>2. ASSUME NEW x \in UserPage, FrameAddress(tables, x) = f PROVE At(x) \in Holding(p, f)
  <2>1. /\ x \div MEM_MAX_PAGE_ENTRY \in UserDir /\ x % MEM_MAX_PAGE_ENTRY \in Entry
        /\ tables.pageDirectory[x \div MEM_MAX_PAGE_ENTRY] \in Table \cup {NONE}
    BY <1>0, AddressType
  <2>2. tables.pageDirectory[x \div MEM_MAX_PAGE_ENTRY] # NONE
    BY <1>2 DEF FrameAddress
  <2>3. tables.pageDirectory[x \div MEM_MAX_PAGE_ENTRY] \in tables.pageTableInfo
    BY <1>0, <2>1, <2>2 DEF Sound
  <2> QED BY <1>2, <2>1, <2>2, <2>3 DEF Holding, FrameAddress
<1> HIDE DEF At
<1>3. CASE \E x \in UserPage : FrameAddress(tables, x) = f
  <2>1. PICK x \in UserPage : FrameAddress(tables, x) = f
    BY <1>3
  <2>2. Holding(p, f) = {At(x)}
    BY <1>1, <1>2, <2>1
  <2>3. Cardinality(Holding(p, f)) = 1
    BY <2>2, FS_Singleton
  <2> QED BY <1>3, <2>3
<1>4. CASE ~\E x \in UserPage : FrameAddress(tables, x) = f
  <2>1. Holding(p, f) = {}
    BY <1>1, <1>4
  <2>2. Cardinality(Holding(p, f)) = 0
    BY <2>1, FS_EmptySet
  <2> QED BY <1>4, <2>2
<1> QED BY <1>3, <1>4
-----------------------------------------------------------------------------
(* Who is at work, and on what.                                            *)

LEMMA IInvParts ==
  ASSUME IInv
  PROVE /\ TypeOK /\ PagingTypeOK /\ DevicesTypeOK
        /\ TablesAreSound /\ FramesAreOwned /\ OneThingAtATime
        /\ NoStaleShare /\ SectionIsGranted /\ JobsAreInOrder /\ HeldByTheLiving
        /\ physicalPages \in [Frame -> PhysicalPage]
        /\ processPageTables \in [Proc -> PageTables]
        /\ state \in [Proc -> {"NONE", "NEW", "ALIVE", "FINISHED"}]
        /\ procCurrent \in Proc \cup {KERNEL} /\ cr3 \in Proc \cup {KERNEL}
        /\ queue \in Seq([fn : {"dev_procCleanup", "proc_cleanup"}, procId : Proc])
        /\ \A i \in DOMAIN devices : devices[i].holder \in Proc \cup {NOBODY}
        /\ \A p \in Proc : /\ processPageTables[p] \in PageTables
                           /\ Sound(processPageTables[p])
                           /\ state[p] = "NONE" => processPageTables[p] = NoTables
        /\ assigning \in Assignment
<1>1. /\ TypeOK /\ PagingTypeOK /\ DevicesTypeOK
      /\ TablesAreSound /\ FramesAreOwned /\ OneThingAtATime
      /\ NoStaleShare /\ SectionIsGranted /\ JobsAreInOrder /\ HeldByTheLiving
  BY DEF IInv, TypeOK
<1>2. /\ physicalPages \in [Frame -> PhysicalPage]
      /\ processPageTables \in [Proc -> PageTables]
      /\ cr3 \in Proc \cup {KERNEL} /\ assigning \in Assignment
  BY <1>1 DEF PagingTypeOK
<1>3. /\ state \in [Proc -> {"NONE", "NEW", "ALIVE", "FINISHED"}]
      /\ procCurrent \in Proc \cup {KERNEL}
      /\ queue \in Seq([fn : {"dev_procCleanup", "proc_cleanup"}, procId : Proc])
      /\ \A i \in DOMAIN devices : devices[i].holder \in Proc \cup {NOBODY}
  BY <1>1 DEF TypeOK
<1>4. \A p \in Proc : /\ processPageTables[p] \in PageTables
                      /\ Sound(processPageTables[p])
                      /\ state[p] = "NONE" => processPageTables[p] = NoTables
  <2>1. \A p \in Proc : processPageTables[p] \in PageTables
    BY <1>2
  <2>2. TablesAreSound
    BY <1>1
  <2> QED BY <2>1, <2>2 DEF TablesAreSound
<1> QED BY <1>1, <1>2, <1>3, <1>4

LEMMA Numbers == KERNEL \notin Proc /\ NONE \notin Proc /\ KERNEL # NONE
BY Sizes DEF KERNEL, NONE, Proc

\* Whose pages are being assigned.
LEMMA Assigned ==
  ASSUME IInv, assigning.procId # NONE
  PROVE /\ assigning.procId \in Proc /\ state[assigning.procId] \in {"NEW", "ALIVE"}
        /\ IF loading = Nothing THEN assigning.procId = procCurrent
           ELSE assigning.procId = loading.procId /\ procCurrent = KERNEL
        /\ procCurrent \in Proc => assigning.procId = procCurrent /\ loading = Nothing
<1>1. assigning.procId \in Proc
  BY IInvParts DEF Assignment
<1>2. assigning.procId = IF loading = Nothing THEN procCurrent ELSE loading.procId
  BY IInvParts DEF OneThingAtATime
<1>3. CASE loading = Nothing
  BY <1>1, <1>2, <1>3, IInvParts DEF OneThingAtATime
<1>4. CASE loading # Nothing
  BY <1>1, <1>2, <1>4, IInvParts, Numbers DEF OneThingAtATime
<1> QED BY <1>3, <1>4

LEMMA AtWork ==
  ASSUME IInv, Assigning
  PROVE /\ assigning.procId \in Proc /\ assigning.procId # NONE /\ assigning.error = "NONE"
        /\ assigning.page \in UserPage /\ assigning.left \in Nat \ {0} /\ assigning.page \in Nat
<1>1. assigning.left > 0 /\ assigning.error = "NONE" /\ assigning.left \in Nat /\ assigning.page \in Nat
  BY IInvParts DEF Assigning, Assignment
<1>2. assigning.page \in UserPage
  <2>1. assigning.page \in assigning.page .. assigning.page + assigning.left - 1
    BY <1>1
  <2> QED BY <1>1, <2>1, IInvParts DEF PagingTypeOK
<1>3. assigning.procId # NONE
  BY <1>1, IInvParts DEF OneThingAtATime, NoAssignment
<1> QED BY <1>1, <1>2, <1>3, Assigned

\* A page that is free is not page 0, nobody has it, and it is to have one user.
LEMMA FreePage ==
  ASSUME IInv, FreePages # {}
  PROVE LET f == Min(FreePages)
        IN /\ f \in Frame \ {0} /\ isPhysicalPageFree(f)
           /\ \A p \in Proc, x \in UserPage : FrameAddress(processPageTables[p], x) # f
<1> DEFINE f == Min(FreePages)
<1>1. f \in FreePages
  BY Least DEF FreePages, Frame
<1> HIDE DEF f
<1>2. f \in Frame /\ isPhysicalPageFree(f) /\ ~isPhysicalPageFree(0)
  BY <1>1, IInvParts DEF FreePages, FramesAreOwned
<1>3. f \in Frame \ {0} /\ physicalPages[f].assignCount = 0
  BY <1>2 DEF isPhysicalPageFree
<1>a. FramesAreOwned
  BY IInvParts
<1>4. \A p \in Proc, x \in UserPage : FrameAddress(processPageTables[p], x) # f
  BY <1>3, <1>a DEF FramesAreOwned, Owned
<1> QED BY <1>2, <1>3, <1>4 DEF f

\* What a turn of k_paging_assign does to the pages of the processes.
Given(p, page, f) ==
  /\ f \in Frame \ {0} /\ isPhysicalPageFree(f)
  /\ \A q \in Proc, x \in UserPage : FrameAddress(processPageTables[q], x) # f
  /\ FrameAddress(processPageTables[p], page) = 0
  /\ physicalPages' = [physicalPages EXCEPT ![f].assignCount = @ + 1]
  /\ \A q \in Proc, x \in UserPage :
       FrameAddress(processPageTables'[q], x) =
         IF q = p /\ x = page THEN f ELSE FrameAddress(processPageTables[q], x)

PagesStay ==
  /\ physicalPages' = physicalPages
  /\ \A q \in Proc, x \in UserPage :
       FrameAddress(processPageTables'[q], x) = FrameAddress(processPageTables[q], x)

NextTurn(next) ==
  /\ next.procId = assigning.procId /\ next.error = assigning.error
  /\ next.page = assigning.page + 1 /\ next.left = assigning.left - 1

LEMMA AssignTurn ==
  ASSUME IInv, AssignPage
  PROVE LET p == assigning.procId
            page == assigning.page
        IN /\ processPageTables' \in [Proc -> PageTables]
           /\ \A q \in Proc : /\ Sound(processPageTables'[q])
                              /\ q # p => processPageTables'[q] = processPageTables[q]
           /\ \/ PagesStay /\ assigning'.error # "NONE" /\ assigning'.procId = p
                 /\ assigning'.page = page /\ assigning'.left = assigning.left
              \/ /\ PagesStay /\ NextTurn(assigning')
                 /\ FrameAddress(processPageTables[p], page) # 0
              \/ NextTurn(assigning') /\ \E f \in Frame \ {0} : Given(p, page, f)
           /\ assigning' \in Assignment
           /\ KeepCR3
<1> DEFINE p == assigning.procId
<1> DEFINE page == assigning.page
<1> DEFINE dirIndex == page \div MEM_MAX_PAGE_ENTRY
<1> DEFINE old == processPageTables[p]
<1> DEFINE present == old.pageDirectory[dirIndex] # NONE
<1> DEFINE tables == IF present THEN old ELSE assignDirEntry(old, dirIndex)
<1> DEFINE next == [assigning EXCEPT !.page = @ + 1, !.left = @ - 1]
<1>0. /\ p \in Proc /\ page \in UserPage /\ page \in Nat /\ assigning.left \in Nat \ {0}
      /\ assigning.error = "NONE" /\ dirIndex \in UserDir /\ KeepCR3
      /\ assigning \in Assignment
  BY AtWork, PageParts, IInvParts DEF AssignPage
<1>1. /\ old \in PageTables /\ Sound(old) /\ processPageTables \in [Proc -> PageTables]
      /\ \A q \in Proc : Sound(processPageTables[q])
  BY <1>0, IInvParts
<1>2. \/ /\ ~present /\ getFreeTable(old) = {}
         /\ AssignFails("OUT_OF_PAGES")
         /\ UNCHANGED <<physicalPages, processPageTables>>
      \/ /\ present /\ FrameAddress(old, page) # 0
         /\ assigning' = [next EXCEPT !.overlap = TRUE]
         /\ UNCHANGED <<physicalPages, processPageTables>>
      \/ /\ present \/ getFreeTable(old) # {}
         /\ FrameAddress(tables, page) = 0
         /\ FreePages = {}
         /\ AssignFails("OUT_OF_MEMORY")
         /\ processPageTables' = [processPageTables EXCEPT ![p] = tables]
         /\ UNCHANGED physicalPages
      \/ /\ present \/ getFreeTable(old) # {}
         /\ FrameAddress(tables, page) = 0
         /\ FreePages # {}
         /\ assigning' = [next EXCEPT !.newPages = TRUE]
         /\ processPageTables' =
              [processPageTables EXCEPT ![p] = assignVirtualPage(tables, page, Min(FreePages))]
         /\ physicalPages' = [physicalPages EXCEPT ![Min(FreePages)].assignCount = @ + 1]
  BY DEF AssignPage
<1>3. present \/ getFreeTable(old) # {} =>
        /\ tables \in PageTables /\ Sound(tables) /\ tables.pageDirectory[dirIndex] # NONE
        /\ \A x \in UserPage : FrameAddress(tables, x) = FrameAddress(old, x)
  <2>1. CASE present
    BY <1>1, <2>1
  <2>2. CASE ~present /\ getFreeTable(old) # {}
    BY <1>0, <1>1, <2>2, DirAssigned
  <2> QED BY <2>1, <2>2
<1>a. /\ next.procId = p /\ next.error = "NONE" /\ next.page = page + 1 /\ next.left = assigning.left - 1
      /\ next \in Assignment
  <2>1. assigning.left - 1 \in Nat /\ assigning.page + 1 \in Nat
    BY <1>0
  <2> QED BY <1>0, <2>1 DEF Assignment
<1>b. old = processPageTables[p]
  OBVIOUS
<1>c. dirIndex = page \div MEM_MAX_PAGE_ENTRY
  OBVIOUS
<1> HIDE DEF old, tables, next, dirIndex, present
<1>4. CASE AssignFails("OUT_OF_PAGES") /\ UNCHANGED <<physicalPages, processPageTables>>
  <2>1. /\ assigning'.error # "NONE" /\ assigning'.procId = p
        /\ assigning'.page = page /\ assigning'.left = assigning.left
        /\ assigning' \in Assignment
    BY <1>0, <1>4 DEF AssignFails, Assignment
  <2>2. PagesStay
    BY <1>4 DEF PagesStay
  <2>3. processPageTables' = processPageTables
    BY <1>4
  <2> QED BY <1>0, <1>1, <2>1, <2>2, <2>3
<1>5. CASE /\ FrameAddress(old, page) # 0
           /\ assigning' = [next EXCEPT !.overlap = TRUE]
           /\ UNCHANGED <<physicalPages, processPageTables>>
  <2>1. NextTurn(assigning') /\ PagesStay
    BY <1>0, <1>a, <1>5 DEF NextTurn, PagesStay, Assignment
  <2>2. processPageTables' = processPageTables /\ FrameAddress(processPageTables[p], page) # 0
    BY <1>5, <1>b
  <2>3. assigning' \in Assignment
    BY <1>5, <1>a DEF Assignment
  <2> QED BY <1>0, <1>1, <2>1, <2>2, <2>3
<1>6. CASE /\ present \/ getFreeTable(old) # {}
           /\ AssignFails("OUT_OF_MEMORY")
           /\ processPageTables' = [processPageTables EXCEPT ![p] = tables]
           /\ UNCHANGED physicalPages
  <2>1. \A q \in Proc : processPageTables'[q] = IF q = p THEN tables ELSE processPageTables[q]
    BY <1>1, <1>6
  <2>2. processPageTables' \in [Proc -> PageTables]
    BY <1>1, <1>3, <1>6
  <2>3. PagesStay
    BY <1>3, <1>6, <1>b, <2>1 DEF PagesStay
  <2>4. \A q \in Proc : Sound(processPageTables'[q])
    BY <1>1, <1>3, <1>6, <2>1
  <2>5. /\ assigning'.error # "NONE" /\ assigning'.procId = p
        /\ assigning'.page = page /\ assigning'.left = assigning.left
        /\ assigning' \in Assignment
    BY <1>0, <1>6 DEF AssignFails, Assignment
  <2> QED BY <1>0, <2>1, <2>2, <2>3, <2>4, <2>5
<1>7. CASE /\ present \/ getFreeTable(old) # {}
           /\ FrameAddress(tables, page) = 0
           /\ FreePages # {}
           /\ assigning' = [next EXCEPT !.newPages = TRUE]
           /\ processPageTables' =
                [processPageTables EXCEPT ![p] = assignVirtualPage(tables, page, Min(FreePages))]
           /\ physicalPages' = [physicalPages EXCEPT ![Min(FreePages)].assignCount = @ + 1]
  <2> DEFINE f == Min(FreePages)
  <2> DEFINE new == assignVirtualPage(tables, page, f)
  <2>1. /\ f \in Frame \ {0} /\ isPhysicalPageFree(f)
        /\ \A q \in Proc, x \in UserPage : FrameAddress(processPageTables[q], x) # f
    BY <1>7, FreePage
  <2>2. /\ processPageTables' = [processPageTables EXCEPT ![p] = new]
        /\ physicalPages' = [physicalPages EXCEPT ![f].assignCount = @ + 1]
    BY <1>7
  <2> HIDE DEF f
  <2>3. /\ new \in PageTables /\ Sound(new)
        /\ \A x \in UserPage : FrameAddress(new, x) = IF x = page THEN f ELSE FrameAddress(tables, x)
    BY <1>0, <1>3, <1>7, <1>c, <2>1, PageAssigned
  <2> HIDE DEF new
  <2>4. \A q \in Proc : processPageTables'[q] = IF q = p THEN new ELSE processPageTables[q]
    BY <1>1, <2>2
  <2>5. FrameAddress(processPageTables[p], page) = 0
    BY <1>0, <1>3, <1>7, <1>b
  <2>6. \A q \in Proc, x \in UserPage :
          FrameAddress(processPageTables'[q], x) =
            IF q = p /\ x = page THEN f ELSE FrameAddress(processPageTables[q], x)
    BY <1>0, <1>3, <1>7, <1>b, <2>3, <2>4
  <2>7. Given(p, page, f)
    BY <2>1, <2>2, <2>5, <2>6 DEF Given
  <2>8. processPageTables' \in [Proc -> PageTables]
    BY <1>1, <2>2, <2>3
  <2>9. \A q \in Proc : Sound(processPageTables'[q])
    BY <1>1, <2>3, <2>4
  <2>10. /\ NextTurn(assigning')
         /\ assigning' \in Assignment
    BY <1>0, <1>7, <1>a DEF NextTurn, Assignment
  <2> QED BY <1>0, <2>1, <2>4, <2>7, <2>8, <2>9, <2>10
<1> QED BY <1>2, <1>4, <1>5, <1>6, <1>7
-----------------------------------------------------------------------------
(* Physical pages: given, taken back, and all that a process had.          *)

\* The invariant of the next state, from what is known of each page in it.
LEMMA OwnedNext ==
  ASSUME physicalPages'[0] = physicalPages[0], ~isPhysicalPageFree(0),
         \A f \in Frame \ {0} : Owned(physicalPages'[f], f, processPageTables')
  PROVE FramesAreOwned'
BY DEF FramesAreOwned, isPhysicalPageFree, Owned

LEMMA OwnedStays == ASSUME IInv, PagesStay PROVE FramesAreOwned'
<1>1. FramesAreOwned /\ ~isPhysicalPageFree(0) /\ physicalPages'[0] = physicalPages[0]
  BY IInvParts DEF FramesAreOwned, PagesStay
<1>2. ASSUME NEW f \in Frame \ {0} PROVE Owned(physicalPages'[f], f, processPageTables')
  <2>1. Owned(physicalPages[f], f, processPageTables)
    BY <1>1 DEF FramesAreOwned
  <2> QED BY <2>1 DEF PagesStay, Owned
<1> QED BY <1>1, <1>2, OwnedNext

LEMMA OwnedGiven ==
  ASSUME IInv, NEW p \in Proc, NEW page \in UserPage, NEW f \in Frame \ {0}, Given(p, page, f)
  PROVE FramesAreOwned' /\ physicalPages' \in [Frame -> PhysicalPage]
<1>1. FramesAreOwned /\ ~isPhysicalPageFree(0) /\ physicalPages \in [Frame -> PhysicalPage]
  BY IInvParts DEF FramesAreOwned
<1>2. /\ physicalPages[f].assignCount = 0 /\ ~physicalPages[f].reserved
      /\ physicalPages[f] \in PhysicalPage /\ physicalPages'[f] \in PhysicalPage
      /\ physicalPages'[f].assignCount = 1 /\ ~physicalPages'[f].reserved
      /\ \A g \in Frame : g # f => physicalPages'[g] = physicalPages[g]
      /\ physicalPages' \in [Frame -> PhysicalPage]
  BY <1>1 DEF Given, isPhysicalPageFree, PhysicalPage
<1>3. ASSUME NEW g \in Frame \ {0} PROVE Owned(physicalPages'[g], g, processPageTables')
  <2>1. Owned(physicalPages[g], g, processPageTables)
    BY <1>1 DEF FramesAreOwned
  <2>2. \A q \in Proc, x \in UserPage :
          FrameAddress(processPageTables'[q], x) =
            IF q = p /\ x = page THEN f ELSE FrameAddress(processPageTables[q], x)
    BY DEF Given
  <2>3. CASE g = f
    <3>1. \A q \in Proc, x \in UserPage :
            FrameAddress(processPageTables'[q], x) = f <=> q = p /\ x = page
      BY <2>2 DEF Given
    <3> QED BY <1>2, <2>3, <3>1 DEF Owned
  <2>4. CASE g # f
    <3>1. \A q \in Proc, x \in UserPage :
            FrameAddress(processPageTables'[q], x) = g <=> FrameAddress(processPageTables[q], x) = g
      BY <2>2, <2>4 DEF Given
    <3> QED BY <1>2, <2>1, <2>4, <3>1 DEF Owned
  <2> QED BY <2>3, <2>4
<1> QED BY <1>1, <1>2, <1>3, FirstFrame, OwnedNext

LEMMA OwnedTaken ==
  ASSUME IInv, NEW p \in Proc, NEW page \in UserPage, NEW f \in Frame \ {0},
         FrameAddress(processPageTables[p], page) = f,
         physicalPages' = [physicalPages EXCEPT ![f].assignCount = @ - 1],
         \A q \in Proc, x \in UserPage :
           FrameAddress(processPageTables'[q], x) =
             IF q = p /\ x = page THEN 0 ELSE FrameAddress(processPageTables[q], x)
  PROVE FramesAreOwned' /\ physicalPages' \in [Frame -> PhysicalPage]
<1>1. FramesAreOwned /\ ~isPhysicalPageFree(0) /\ physicalPages \in [Frame -> PhysicalPage]
  BY IInvParts DEF FramesAreOwned
<1>2. physicalPages[f].assignCount = 1 /\ ~physicalPages[f].reserved
  BY <1>1 DEF FramesAreOwned, Owned
<1>3. /\ physicalPages[f] \in PhysicalPage /\ physicalPages'[f] \in PhysicalPage
      /\ physicalPages'[f].assignCount = 0 /\ ~physicalPages'[f].reserved
      /\ \A g \in Frame : g # f => physicalPages'[g] = physicalPages[g]
      /\ physicalPages' \in [Frame -> PhysicalPage]
  BY <1>1, <1>2 DEF PhysicalPage
<1>4. ASSUME NEW g \in Frame \ {0} PROVE Owned(physicalPages'[g], g, processPageTables')
  <2>1. Owned(physicalPages[g], g, processPageTables)
    BY <1>1 DEF FramesAreOwned
  <2>2. CASE g = f
    <3>1. \A q \in Proc, x \in UserPage : FrameAddress(processPageTables'[q], x) # f
      BY <2>1, <2>2 DEF Owned
    <3> QED BY <1>3, <2>2, <3>1 DEF Owned
  <2>3. CASE g # f
    <3>1. \A q \in Proc, x \in UserPage :
            FrameAddress(processPageTables'[q], x) = g <=> FrameAddress(processPageTables[q], x) = g
      BY <2>3
    <3> QED BY <1>3, <2>1, <2>3, <3>1 DEF Owned
  <2> QED BY <2>2, <2>3
<1> QED BY <1>1, <1>3, <1>4, FirstFrame, OwnedNext

LEMMA OwnedCleaned ==
  ASSUME IInv, NEW p \in Proc, k_paging_procCleanup(p)
  PROVE /\ FramesAreOwned' /\ physicalPages' \in [Frame -> PhysicalPage]
        /\ processPageTables' = [processPageTables EXCEPT ![p] = NoTables]
        /\ \A q \in Proc, x \in UserPage :
             FrameAddress(processPageTables'[q], x) =
               IF q = p THEN 0 ELSE FrameAddress(processPageTables[q], x)
<1>1. /\ FramesAreOwned /\ ~isPhysicalPageFree(0) /\ physicalPages \in [Frame -> PhysicalPage]
      /\ processPageTables \in [Proc -> PageTables]
      /\ processPageTables[p] \in PageTables /\ Sound(processPageTables[p])
  BY IInvParts DEF FramesAreOwned
<1>2. /\ processPageTables' = [processPageTables EXCEPT ![p] = NoTables]
      /\ \A q \in Proc : processPageTables'[q] = IF q = p THEN NoTables ELSE processPageTables[q]
  BY <1>1 DEF k_paging_procCleanup
<1>3. \A q \in Proc, x \in UserPage :
        FrameAddress(processPageTables'[q], x) =
          IF q = p THEN 0 ELSE FrameAddress(processPageTables[q], x)
  BY <1>2, EmptyTables
<1>4. physicalPages'[0] = physicalPages[0]
  BY FirstFrame DEF k_paging_procCleanup
<1>5. ASSUME NEW g \in Frame \ {0}
      PROVE Owned(physicalPages'[g], g, processPageTables') /\ physicalPages'[g] \in PhysicalPage
  <2>1. Owned(physicalPages[g], g, processPageTables) /\ physicalPages[g] \in PhysicalPage
    BY <1>1 DEF FramesAreOwned
  <2>2. Cardinality(Holding(p, g)) =
          IF \E x \in UserPage : FrameAddress(processPageTables[p], x) = g THEN 1 ELSE 0
    <3>1. \A x, y \in UserPage :
            FrameAddress(processPageTables[p], x) = g /\ FrameAddress(processPageTables[p], y) = g => x = y
      BY <2>1 DEF Owned
    <3> QED BY <1>1, <3>1, HeldOnce
  <2>3. physicalPages'[g] = [physicalPages[g] EXCEPT !.assignCount = @ - Cardinality(Holding(p, g))]
    BY DEF k_paging_procCleanup
  <2>4. CASE \E x \in UserPage : FrameAddress(processPageTables[p], x) = g
    <3>1. physicalPages[g].assignCount = 1 /\ ~physicalPages[g].reserved
      BY <2>1, <2>4 DEF Owned
    <3>2. physicalPages'[g] \in PhysicalPage /\ physicalPages'[g].assignCount = 0 /\ ~physicalPages'[g].reserved
      BY <2>1, <2>2, <2>3, <2>4, <3>1 DEF PhysicalPage
    <3>3. \A q \in Proc, x \in UserPage : FrameAddress(processPageTables'[q], x) # g
      BY <1>3, <2>1, <2>4 DEF Owned
    <3> QED BY <3>2, <3>3 DEF Owned
  <2>5. CASE ~\E x \in UserPage : FrameAddress(processPageTables[p], x) = g
    <3>1. physicalPages'[g] = physicalPages[g]
      BY <2>1, <2>2, <2>3, <2>5 DEF PhysicalPage
    <3>2. \A q \in Proc, x \in UserPage :
            FrameAddress(processPageTables'[q], x) = g <=> FrameAddress(processPageTables[q], x) = g
      BY <1>3, <2>5
    <3> QED BY <2>1, <3>1, <3>2 DEF Owned
  <2> QED BY <2>4, <2>5
<1>6. physicalPages' \in [Frame -> PhysicalPage]
  <2>1. \A g \in Frame : physicalPages'[g] \in PhysicalPage
    BY <1>1, <1>4, <1>5
  <2>2. physicalPages' = [g \in Frame |-> physicalPages'[g]]
    BY DEF k_paging_procCleanup
  <2> QED BY <2>1, <2>2
<1>7. FramesAreOwned'
  BY <1>1, <1>4, <1>5, OwnedNext
<1> QED BY <1>2, <1>3, <1>6, <1>7
-----------------------------------------------------------------------------
(* The processor, and the pages that are asked for.                        *)

LEMMA OneUser ==
  ASSUME FramesAreOwned, NEW f \in Frame \ {0}, NEW p \in Proc, NEW q \in Proc,
         NEW x \in UserPage, NEW y \in UserPage,
         FrameAddress(processPageTables[p], x) = f, FrameAddress(processPageTables[q], y) = f
  PROVE p = q /\ x = y
<1>1. Owned(physicalPages[f], f, processPageTables)
  BY DEF FramesAreOwned
<1> QED BY <1>1 DEF Owned

LEMMA OneUserNext ==
  ASSUME FramesAreOwned', NEW f \in Frame \ {0}, NEW p \in Proc, NEW q \in Proc,
         NEW x \in UserPage, NEW y \in UserPage,
         FrameAddress(processPageTables'[p], x) = f, FrameAddress(processPageTables'[q], y) = f
  PROVE p = q /\ x = y
BY DEF FramesAreOwned, Owned

LEMMA TranslationType ==
  ASSUME NEW tables, NEW t \in Translations(tables)
  PROVE /\ t \in UserPage \X (Frame \ {0}) /\ t[1] \in UserPage /\ t[2] \in Frame \ {0}
        /\ FrameAddress(tables, t[1]) = t[2]
BY DEF Translations

LEMMA ProcessorType ==
  ASSUME IInv, KeepCR3 \/ \E d \in Proc \cup {KERNEL} : SetCR3(d)
  PROVE cr3' \in Proc \cup {KERNEL} /\ tlb' \subseteq UserPage \X (Frame \ {0})
<1>1. cr3 \in Proc \cup {KERNEL} /\ tlb \subseteq UserPage \X (Frame \ {0})
  BY IInvParts DEF PagingTypeOK
<1>2. \A d : Walked(processPageTables', d) \subseteq UserPage \X (Frame \ {0})
  BY DEF Walked, Translations
<1> QED BY <1>1, <1>2 DEF KeepCR3, SetCR3

LEMMA ShareNext ==
  ASSUME procCurrent' \in Proc =>
           \A t \in tlb' : \A q \in Proc, y \in UserPage :
              FrameAddress(processPageTables'[q], y) = t[2] => q = procCurrent'
  PROVE NoStaleShare'
BY DEF NoStaleShare, Users

\* The process that runs goes on: it may get pages and give some back.
LEMMA ShareKept ==
  ASSUME IInv, FramesAreOwned', procCurrent' = procCurrent \/ procCurrent' = KERNEL,
         procCurrent \in Proc =>
           /\ tlb' \subseteq tlb \cup Translations(processPageTables'[procCurrent])
           /\ \A q \in Proc, y \in UserPage : q # procCurrent =>
                FrameAddress(processPageTables'[q], y) \in {FrameAddress(processPageTables[q], y), 0}
  PROVE NoStaleShare'
<1> SUFFICES ASSUME procCurrent' \in Proc, NEW t \in tlb', NEW q \in Proc, NEW y \in UserPage,
                    FrameAddress(processPageTables'[q], y) = t[2]
             PROVE q = procCurrent'
  BY ShareNext
<1>1. procCurrent' = procCurrent /\ procCurrent \in Proc
  BY Numbers
<1>2. CASE t \in tlb
  <2>1. t[2] # 0
    BY <1>2, IInvParts DEF PagingTypeOK
  <2>2. q # procCurrent => FrameAddress(processPageTables[q], y) = t[2]
    BY <1>1, <2>1
  <2>3. <<q, y>> \in Proc \X UserPage
    OBVIOUS
  <2>4. FrameAddress(processPageTables[q], y) = t[2] => q = procCurrent
    BY <1>1, <1>2, <2>3, IInvParts DEF NoStaleShare, Users
  <2> QED BY <1>1, <2>2, <2>4
<1>3. CASE t \in Translations(processPageTables'[procCurrent])
  <2>1. /\ t[1] \in UserPage /\ t[2] \in Frame \ {0}
        /\ FrameAddress(processPageTables'[procCurrent], t[1]) = t[2]
    BY <1>3, TranslationType
  <2> QED BY <1>1, <2>1, OneUserNext
<1> QED BY <1>1, <1>2, <1>3

\* A process is switched to: the processor knows its pages only.
LEMMA ShareSwitched ==
  ASSUME FramesAreOwned', procCurrent' \in Proc, cr3' = procCurrent',
         tlb' = Walked(processPageTables', procCurrent')
  PROVE NoStaleShare'
<1> SUFFICES ASSUME NEW t \in tlb', NEW q \in Proc, NEW y \in UserPage,
                    FrameAddress(processPageTables'[q], y) = t[2]
             PROVE q = procCurrent'
  BY ShareNext
<1>1. t \in Translations(processPageTables'[procCurrent'])
  BY Numbers DEF Walked
<1>2. /\ t[1] \in UserPage /\ t[2] \in Frame \ {0}
      /\ FrameAddress(processPageTables'[procCurrent'], t[1]) = t[2]
  BY <1>1, TranslationType
<1> QED BY <1>2, OneUserNext

\* The first page after the user's.
LEMMA BelowUserPages ==
  ASSUME NEW page \in UserPage
  PROVE \A x \in Nat : x <= page => x \in UserPage
<1> DEFINE n == MEM_MAX_PAGE_ENTRY
<1> DEFINE u == MEM_VIRTUAL_USER_MAX_PAGE_TABLE_COUNT
<1> DEFINE d == page \div n
<1> DEFINE e == page % n
<1>1. /\ n \in Nat \ {0} /\ u \in Nat /\ d \in 0 .. u - 1 /\ e \in 0 .. n - 1
      /\ page = n * d + e
  BY PageParts, Sizes DEF UserDir, Entry
<1> HIDE DEF n, u, d, e
<1>2. n * d + n <= n * u /\ n * d \in Int /\ n * u \in Int
  BY <1>1, Multiples
<1>3. \A x \in Nat : x <= page => x < n * u
  BY <1>1, <1>2
<1> QED BY <1>3, UserPages DEF n, u

\* The sizes of the address space and of its part that is the user's, in pages.
LEMMA Spaces ==
  /\ SPACE \in Nat \ {0} /\ USER_SPACE \in Nat
  /\ USER_SPACE = MEM_PAGE_SIZE_BYTES
                    * (MEM_MAX_PAGE_ENTRY * MEM_VIRTUAL_USER_MAX_PAGE_TABLE_COUNT)
  /\ USER_SPACE + MEM_PAGE_SIZE_BYTES <= SPACE
<1> DEFINE s == MEM_PAGE_SIZE_BYTES
<1> DEFINE n == MEM_MAX_PAGE_ENTRY
<1> DEFINE u == MEM_VIRTUAL_USER_MAX_PAGE_TABLE_COUNT
<1> DEFINE d == MEM_MAX_DIR_ENTRY
<1>0. s \in Nat \ {0} /\ n \in Nat \ {0} /\ u \in Nat /\ d \in Nat /\ u < d
  BY Sizes
<1>1. SPACE = d * n * s /\ USER_SPACE = u * n * s
  BY DEF SPACE, USER_SPACE, MEM_MAX_VIRTUAL_PAGE_COUNT
<1> HIDE DEF s, n, u, d
<1>2. n * u + n <= n * d /\ n * u \in Nat /\ n * d \in Nat
  BY <1>0, Multiples
<1>3. n * u < n * d
  BY <1>0, <1>2
<1>4. s * (n * u) + s <= s * (n * d)
  BY <1>0, <1>2, <1>3, Multiples
<1>5. u * n * s = s * (n * u) /\ d * n * s = s * (n * d)
  BY <1>0
<1>6. s * (n * u) \in Nat /\ s * (n * d) \in Nat
  BY <1>0, <1>2
<1> QED BY <1>0, <1>1, <1>4, <1>5, <1>6 DEF s, n, u, d

\* What k_mem_gimme asks for: the pages of the range, all of them the user's.
LEMMA Gimme ==
  ASSUME NEW p \in Proc, NEW v \in 0 .. SPACE - 1, NEW size \in 0 .. SPACE - 1,
         k_mem_gimme(p, v, size)
  PROVE /\ assigning' \in Assignment /\ assigning'.procId = p
        /\ assigning'.left > 0 =>
             \A page \in assigning'.page .. assigning'.page + assigning'.left - 1 : page \in UserPage
        /\ assigning'.error = "NONE" =>
             /\ assigning'.page = v \div MEM_PAGE_SIZE_BYTES
             /\ \A b \in v .. v + size - 1 :
                  b \div MEM_PAGE_SIZE_BYTES < assigning'.page + assigning'.left
<1> DEFINE s == MEM_PAGE_SIZE_BYTES
<1> DEFINE vEnd == (v + size) % SPACE
<1> DEFINE startPage == v \div s
<1> DEFINE endPage == alignedr(vEnd, TRUE) \div s
<1>0. /\ SPACE \in Nat \ {0} /\ USER_SPACE \in Nat /\ s \in Nat \ {0}
      /\ v \in Nat /\ size \in Nat /\ v + size \in 0 .. 2 * SPACE - 1
  BY Spaces, Sizes
<1>a. assigning' =
        IF vEnd <= v \/ vEnd > USER_SPACE
        THEN [NoAssignment EXCEPT !.procId = p, !.error = "INVALID_ARGUMENT"]
        ELSE [NoAssignment EXCEPT !.procId = p, !.page = startPage,
                                  !.left = endPage - startPage]
  BY Zenon DEF k_mem_gimme
<1>b. endPage = alignedr(vEnd, TRUE) \div s /\ vEnd = (v + size) % SPACE /\ startPage = v \div s
  OBVIOUS
<1> HIDE DEF vEnd, startPage, endPage
<1>1. CASE vEnd <= v \/ vEnd > USER_SPACE
  <2>1. assigning' = [NoAssignment EXCEPT !.procId = p, !.error = "INVALID_ARGUMENT"]
    BY <1>a, <1>1
  <2>2. /\ assigning' \in Assignment /\ assigning'.procId = p
        /\ assigning'.left = 0 /\ assigning'.error = "INVALID_ARGUMENT"
    BY <2>1 DEF NoAssignment, Assignment
  <2> QED BY <2>2
<1>2. CASE ~(vEnd <= v \/ vEnd > USER_SPACE)
  <2>1. assigning' = [NoAssignment EXCEPT !.procId = p, !.page = startPage,
                                          !.left = endPage - startPage]
    BY <1>a, <1>2
  <2>2. vEnd = IF v + size < SPACE THEN v + size ELSE (v + size) - SPACE
    <3> DEFINE sum == v + size
    <3>1. sum \in 0 .. 2 * SPACE - 1 /\ SPACE \in Nat \ {0} /\ vEnd = sum % SPACE
      BY <1>0, <1>b
    <3> HIDE DEF sum
    <3>2. sum % SPACE = IF sum < SPACE THEN sum ELSE sum - SPACE
      BY <3>1, Wrapped
    <3>3. vEnd = IF sum < SPACE THEN sum ELSE sum - SPACE
      BY <3>1, <3>2
    <3> QED BY <3>3 DEF sum
  <2>3. vEnd = v + size /\ vEnd \in Nat /\ vEnd <= USER_SPACE /\ v < vEnd
    BY <1>0, <1>2, <2>2
  <2> DEFINE m == MEM_MAX_PAGE_ENTRY * MEM_VIRTUAL_USER_MAX_PAGE_TABLE_COUNT
  <2> DEFINE c == Pages(vEnd)
  <2>4. m \in Nat /\ USER_SPACE = s * m /\ s * m + s <= SPACE
    BY Spaces, Sizes
  <2>5. /\ c \in Nat /\ c <= m
        /\ \A b \in Nat : b < vEnd => b \div s < c
    BY <2>3, <2>4, Ceiling
  <2>6. endPage = c
    <3>1. alignedr(vEnd, TRUE) = c * s % SPACE /\ endPage = alignedr(vEnd, TRUE) \div s
      BY <1>b DEF alignedr, Pages
    <3> HIDE DEF c, m, s
    <3>2. s * c <= s * m /\ s * c \in Nat /\ s * m \in Nat
      <4>1. CASE c = m
        BY <1>0, <2>4, <2>5, <4>1
      <4>2. CASE c < m
        <5>1. s * c + s <= s * m /\ s * c \in Nat /\ s * m \in Nat
          BY <1>0, <2>4, <2>5, <4>2, Multiples
        <5> QED BY <1>0, <5>1
      <4> QED BY <2>4, <2>5, <4>1, <4>2
    <3>3. s * c < SPACE /\ s * c \in 0 .. 2 * SPACE - 1
      BY <1>0, <2>4, <3>2
    <3>4. (s * c) % SPACE = s * c
      BY <1>0, <3>3, Wrapped
    <3>5. c * s = s * c
      BY <1>0, <2>5
    <3>6. (s * c + 0) \div s = c /\ s * c + 0 = s * c
      BY <1>0, <2>5, <3>2, Quotient
    <3> QED BY <3>1, <3>4, <3>5, <3>6
  <2>7. startPage \in Nat /\ startPage < c
    BY <1>0, <1>b, <2>3, <2>5, Division
  <2> HIDE DEF c, m
  <2>8. endPage - startPage \in Nat /\ startPage + (endPage - startPage) = c
    BY <2>5, <2>6, <2>7
  <2>9. /\ assigning' \in Assignment /\ assigning'.procId = p /\ assigning'.page = startPage
        /\ assigning'.left = endPage - startPage
    BY <2>1, <2>7, <2>8 DEF NoAssignment, Assignment
  <2>a. /\ assigning'.page + assigning'.left = c
        /\ assigning'.page + assigning'.left - 1 = c - 1
    <3>1. endPage - startPage \in Nat /\ startPage \in Nat /\ c \in Nat
      BY <2>5, <2>7, <2>8
    <3> QED BY <3>1, <2>8, <2>9
  <2>10. \A page \in startPage .. c - 1 : page \in UserPage
    BY <2>4, <2>5, <2>7, UserPages DEF m
  <2>11. ASSUME NEW b \in v .. v + size - 1 PROVE b \div s < c
    <3>1. b \in Nat /\ b < vEnd
      BY <1>0, <2>3
    <3> QED BY <2>5, <3>1
  <2>12. /\ assigning'.page + assigning'.left = c
         /\ \A page \in assigning'.page .. assigning'.page + assigning'.left - 1 : page \in UserPage
    BY <2>9, <2>10, <2>a
  <2> QED BY <1>b, <2>9, <2>11, <2>12
<1> QED BY <1>1, <1>2
-----------------------------------------------------------------------------
(* The parts of the invariant, by what they are about, and what keeps them. *)

Memory == PagingTypeOK /\ TablesAreSound /\ FramesAreOwned

Work ==
  /\ state \in [Proc -> {"NONE", "NEW", "ALIVE", "FINISHED"}]
  /\ procCurrent \in Proc \cup {KERNEL}
  /\ \/ loading = Nothing
     \/ /\ loading \in [procId : Proc, file : File, left : SUBSET Nat]
        /\ loading.left \subseteq Allocated(loading.file)
  /\ oops \in BOOLEAN
  /\ OneThingAtATime /\ SectionIsGranted

Jobs ==
  /\ queue \in Seq([fn : {"dev_procCleanup", "proc_cleanup"}, procId : Proc])
  /\ \A i \in DOMAIN devices : devices[i].holder \in Proc \cup {NOBODY}
  /\ DevicesTypeOK /\ JobsAreInOrder /\ HeldByTheLiving

LEMMA Assembled == ASSUME Memory, NoStaleShare, Work, Jobs PROVE IInv
BY DEF IInv, TypeOK, Memory, Work, Jobs

LEMMA AssembledNext == ASSUME Memory', NoStaleShare', Work', Jobs' PROVE IInv'
BY DEF IInv, TypeOK, Memory, Work, Jobs

LEMMA JobType ==
  ASSUME NEW jobs, jobs \in Seq([fn : {"dev_procCleanup", "proc_cleanup"}, procId : Proc]),
         NEW i \in DOMAIN jobs
  PROVE /\ jobs[i].procId \in Proc /\ jobs[i].fn \in {"dev_procCleanup", "proc_cleanup"}
        /\ jobs[i] = Job(jobs[i].fn, jobs[i].procId)
<1> DEFINE J == [fn : {"dev_procCleanup", "proc_cleanup"}, procId : Proc]
<1>1. jobs \in Seq(J)
  OBVIOUS
<1> HIDE DEF J
<1>2. jobs[i] \in J
  BY <1>1
<1> QED BY <1>2 DEF J, Job

\* The processes that live or have ended still do, the queue and the devices stay.
LEMMA JobsKept ==
  ASSUME IInv, UNCHANGED <<queue, devices, installing>>,
         \A p \in Proc : state[p] \in {"ALIVE", "FINISHED"} => state'[p] = state[p]
  PROVE Jobs'
<1>1. /\ queue \in Seq([fn : {"dev_procCleanup", "proc_cleanup"}, procId : Proc])
      /\ DevicesTypeOK /\ JobsAreInOrder /\ HeldByTheLiving
  BY IInvParts
<1>a. \A i \in DOMAIN devices : devices[i].holder \in Proc \cup {NOBODY}
  BY IInvParts
<1>2. DevicesTypeOK'
  BY <1>1 DEF DevicesTypeOK
<1>3. \A i \in DOMAIN queue : queue[i].procId \in Proc
  BY <1>1, JobType
<1>4. JobsAreInOrder'
  BY <1>1, <1>3 DEF JobsAreInOrder
<1>5. HeldByTheLiving'
  BY <1>1, <1>a DEF HeldByTheLiving
<1> QED BY <1>1, <1>2, <1>4, <1>5, <1>a DEF Jobs

\* No page is given or taken back: the processor looks at some, and a call of
\* k_paging_assign begins or returns.
LEMMA MemoryKept ==
  ASSUME IInv, UNCHANGED <<physicalPages, processPageTables>>,
         UNCHANGED <<cr3, tlb>> \/ KeepCR3 \/ (\E d \in Proc \cup {KERNEL} : SetCR3(d)),
         assigning' \in Assignment,
         assigning'.left > 0 =>
           \A page \in assigning'.page .. assigning'.page + assigning'.left - 1 : page \in UserPage,
         \A p \in Proc : state'[p] = "NONE" => state[p] = "NONE"
  PROVE Memory'
<1>1. TablesAreSound'
  <2>1. TablesAreSound
    BY IInvParts
  <2> QED BY <2>1 DEF TablesAreSound
<1>2. FramesAreOwned'
  <2>1. PagesStay
    BY DEF PagesStay
  <2> QED BY <2>1, OwnedStays
<1>3. cr3' \in Proc \cup {KERNEL} /\ tlb' \subseteq UserPage \X (Frame \ {0})
  <2>1. cr3 \in Proc \cup {KERNEL} /\ tlb \subseteq UserPage \X (Frame \ {0})
    BY IInvParts DEF PagingTypeOK
  <2>2. CASE UNCHANGED <<cr3, tlb>>
    BY <2>1, <2>2
  <2> QED BY <2>2, ProcessorType
<1>4. PagingTypeOK'
  <2>1. physicalPages' \in [Frame -> PhysicalPage] /\ processPageTables' \in [Proc -> PageTables]
    BY IInvParts
  <2> QED BY <1>3, <2>1 DEF PagingTypeOK
<1> QED BY <1>1, <1>2, <1>4 DEF Memory

LEMMA NothingAssigned ==
  /\ NoAssignment \in Assignment /\ ~(NoAssignment.left > 0) /\ NoAssignment.procId = NONE
  /\ NoAssignment.error = "NONE"
BY DEF NoAssignment, Assignment

LEMMA NothingLoaded == Nothing.procId = NONE /\ Nothing.left = {}
BY DEF Nothing

\* What the processor may pick up where CR3 keeps its value is a page of the
\* process that runs.
LEMMA PickedUp ==
  ASSUME IInv, UNCHANGED <<cr3, tlb>> \/ KeepCR3 \/ SetCR3(cr3), procCurrent \in Proc
  PROVE tlb' \subseteq tlb \cup Translations(processPageTables'[procCurrent])
<1>1. cr3 = procCurrent /\ cr3 # KERNEL
  BY IInvParts, Numbers DEF OneThingAtATime
<1>2. Walked(processPageTables', cr3) = Translations(processPageTables'[procCurrent])
  BY <1>1 DEF Walked
<1> QED BY <1>2 DEF KeepCR3, SetCR3

LEMMA ShareStays ==
  ASSUME IInv, UNCHANGED <<physicalPages, processPageTables>>,
         UNCHANGED <<cr3, tlb>> \/ KeepCR3 \/ SetCR3(cr3),
         procCurrent' = procCurrent \/ procCurrent' = KERNEL
  PROVE NoStaleShare'
<1>1. FramesAreOwned'
  <2>1. PagesStay
    BY DEF PagesStay
  <2> QED BY <2>1, OwnedStays
<1>2. procCurrent \in Proc =>
        /\ tlb' \subseteq tlb \cup Translations(processPageTables'[procCurrent])
        /\ \A q \in Proc, y \in UserPage : q # procCurrent =>
             FrameAddress(processPageTables'[q], y) \in {FrameAddress(processPageTables[q], y), 0}
  BY PickedUp
<1> QED BY <1>1, <1>2, ShareKept
-----------------------------------------------------------------------------
(* The section the loader works on.                                        *)

LEMMA AllocatedType ==
  ASSUME NEW file \in File
  PROVE /\ Allocated(file) \in SUBSET Nat
        /\ \A i \in Allocated(file) : /\ file.sections[i].virtualAddr \in 0 .. SPACE - 1
                                      /\ file.sections[i].fileSizeBytes \in 0 .. SPACE - 1
<1>1. file \in elfHeader32 /\ ADDR_SPACE = SPACE
  BY ResourcesAssumption DEF ResourcesAssumption
<1>2. file.sections \in Seq(elfSectionHeaderEntry32)
  BY <1>1 DEF elfHeader32
<1> DEFINE sections == file.sections
<1>3. \A i \in DOMAIN sections : sections[i] \in elfSectionHeaderEntry32 /\ i \in Nat
  <2> HIDE DEF sections
  <2>1. sections \in Seq(elfSectionHeaderEntry32)
    BY <1>2 DEF sections
  <2> QED BY <2>1
<1>4. \A i \in DOMAIN sections : /\ sections[i].virtualAddr \in 0 .. SPACE - 1
                                 /\ sections[i].fileSizeBytes \in 0 .. SPACE - 1
  BY <1>1, <1>3 DEF elfSectionHeaderEntry32
<1> QED BY <1>3, <1>4 DEF Allocated

LEMMA SectionType ==
  ASSUME IInv, loading.left # {}
  PROVE /\ Section.virtualAddr \in 0 .. SPACE - 1 /\ Section.fileSizeBytes \in 0 .. SPACE - 1
        /\ loading # Nothing /\ loading.procId \in Proc
        /\ loading.file \in File /\ loading.left \in SUBSET Nat
        /\ loading.left \subseteq Allocated(loading.file)
<1>1. loading # Nothing
  BY NothingLoaded
<1>2. /\ loading \in [procId : Proc, file : File, left : SUBSET Nat]
      /\ loading.left \subseteq Allocated(loading.file)
  BY <1>1, IInvParts DEF TypeOK
<1>3. /\ loading.procId \in Proc /\ loading.file \in File /\ loading.left \in SUBSET Nat
  BY <1>2
<1>4. Min(loading.left) \in loading.left
  BY <1>3, Least
<1> QED BY <1>1, <1>2, <1>3, <1>4, AllocatedType DEF Section

LEMMA GrantOff == ASSUME loading'.left = {} \/ assigning'.procId = NONE PROVE SectionIsGranted'
BY DEF SectionIsGranted

LEMMA GrantStays ==
  ASSUME IInv, UNCHANGED <<loading, assigning, processPageTables>> PROVE SectionIsGranted'
<1>1. SectionIsGranted
  BY IInvParts
<1>2. Section' = Section
  BY DEF Section
<1> QED BY <1>1, <1>2 DEF SectionIsGranted

\* k_mem_gimme for the section: no page has been granted yet.
LEMMA GrantStarts ==
  ASSUME IInv, loading.left # {}, UNCHANGED <<loading, processPageTables>>,
         k_mem_gimme(loading.procId, Section.virtualAddr, Section.fileSizeBytes)
  PROVE SectionIsGranted'
<1> DEFINE first == Section.virtualAddr
<1> DEFINE size == Section.fileSizeBytes
<1>1. first \in 0 .. SPACE - 1 /\ size \in 0 .. SPACE - 1 /\ loading.procId \in Proc
  BY SectionType
<1>2. first' = first /\ size' = size
  BY DEF Section
<1> SUFFICES ASSUME assigning'.error = "NONE"
             PROVE /\ \A page \in first \div MEM_PAGE_SIZE_BYTES .. assigning'.page - 1 :
                        FrameAddress(processPageTables'[loading'.procId], page) # 0
                   /\ \A b \in first .. (first + size) - 1 :
                        b \div MEM_PAGE_SIZE_BYTES < assigning'.page + assigning'.left
  BY <1>2 DEF SectionIsGranted
<1> HIDE DEF first, size
<1>3. /\ assigning'.page = first \div MEM_PAGE_SIZE_BYTES
      /\ \A b \in first .. (first + size) - 1 :
           b \div MEM_PAGE_SIZE_BYTES < assigning'.page + assigning'.left
  <2>1. k_mem_gimme(loading.procId, first, size)
    BY DEF first, size
  <2>2. (first + size) - 1 = first + size - 1
    BY <1>1, Spaces
  <2> QED BY <1>1, <2>1, <2>2, Gimme
<1>4. first \div MEM_PAGE_SIZE_BYTES \in Nat
  BY <1>1, Sizes, Spaces, Division
<1> QED BY <1>3, <1>4

\* A turn of k_paging_assign grants the page at hand, which was there or is now.
LEMMA GrantTurn ==
  ASSUME IInv, AssignPage, loading' = loading
  PROVE SectionIsGranted'
<1> DEFINE first == Section.virtualAddr
<1> DEFINE size == Section.fileSizeBytes
<1> DEFINE p == assigning.procId
<1> DEFINE page == assigning.page
<1>1. SUFFICES ASSUME loading.left # {}, assigning'.error = "NONE"
               PROVE /\ \A x \in first \div MEM_PAGE_SIZE_BYTES .. assigning'.page - 1 :
                          FrameAddress(processPageTables'[loading'.procId], x) # 0
                     /\ \A b \in first .. (first + size) - 1 :
                          b \div MEM_PAGE_SIZE_BYTES < assigning'.page + assigning'.left
  BY DEF SectionIsGranted, Section
<1>2. first \in Nat /\ first \div MEM_PAGE_SIZE_BYTES \in Nat /\ loading # Nothing
  <2>1. first \in 0 .. SPACE - 1 /\ loading # Nothing
    BY <1>1, SectionType
  <2>2. first \in Nat
    BY <2>1, Spaces
  <2> HIDE DEF first
  <2>3. first \div MEM_PAGE_SIZE_BYTES \in Nat
    BY <2>2, Sizes, Division
  <2> QED BY <2>1, <2>2, <2>3
<1>3. /\ Assigning /\ p \in Proc /\ p # NONE /\ assigning.error = "NONE"
      /\ page \in UserPage /\ assigning.left \in Nat \ {0} /\ page \in Nat
  BY AtWork DEF AssignPage
<1>4. loading.procId = p /\ loading' = loading
  BY <1>2, <1>3, Assigned
<1>5. /\ \A x \in first \div MEM_PAGE_SIZE_BYTES .. page - 1 :
           FrameAddress(processPageTables[p], x) # 0
      /\ \A b \in first .. (first + size) - 1 :
           b \div MEM_PAGE_SIZE_BYTES < page + assigning.left
  BY <1>1, <1>3, <1>4, IInvParts DEF SectionIsGranted
<1> HIDE DEF first, size
<1>6. /\ assigning'.page = page + 1 /\ assigning'.left = assigning.left - 1
      /\ \A x \in UserPage : FrameAddress(processPageTables[p], x) # 0 =>
           FrameAddress(processPageTables'[p], x) # 0
      /\ FrameAddress(processPageTables'[p], page) # 0
  <2>1. CASE /\ PagesStay /\ NextTurn(assigning')
             /\ FrameAddress(processPageTables[p], page) # 0
    BY <1>3, <2>1 DEF PagesStay, NextTurn
  <2>2. CASE NextTurn(assigning') /\ \E f \in Frame \ {0} : Given(p, page, f)
    BY <1>3, <2>2 DEF Given, NextTurn
  <2> QED BY <1>1, <2>1, <2>2, AssignTurn
<1>7. ASSUME NEW x \in first \div MEM_PAGE_SIZE_BYTES .. assigning'.page - 1
      PROVE FrameAddress(processPageTables'[p], x) # 0
  <2>1. x \in Nat /\ x <= page /\ (x # page => x \in first \div MEM_PAGE_SIZE_BYTES .. page - 1)
    BY <1>2, <1>3, <1>6
  <2>2. x \in UserPage
    BY <1>3, <2>1, BelowUserPages
  <2> QED BY <1>5, <1>6, <2>1, <2>2
<1>8. assigning'.page + assigning'.left = page + assigning.left
  BY <1>3, <1>6
<1> QED BY <1>4, <1>5, <1>7, <1>8
-----------------------------------------------------------------------------
(* Every step keeps the invariant. First a start, from Spawn to its end.   *)

\* k_paging_assign is not running, or has not been called by this step.
LEMMA MemoryRests ==
  ASSUME IInv, UNCHANGED <<physicalPages, processPageTables, assigning>>,
         UNCHANGED <<cr3, tlb>> \/ KeepCR3 \/ (\E d \in Proc \cup {KERNEL} : SetCR3(d)),
         \A p \in Proc : state'[p] = "NONE" => state[p] = "NONE"
  PROVE Memory'
<1>1. /\ assigning' \in Assignment
      /\ assigning'.left > 0 =>
           \A page \in assigning'.page .. assigning'.page + assigning'.left - 1 : page \in UserPage
  BY IInvParts DEF PagingTypeOK
<1> QED BY <1>1, MemoryKept

LEMMA WorkParts ==
  ASSUME IInv
  PROVE /\ \/ loading = Nothing
           \/ /\ loading \in [procId : Proc, file : File, left : SUBSET Nat]
              /\ loading.left \subseteq Allocated(loading.file)
        /\ oops \in BOOLEAN
        /\ loading # Nothing => loading.procId \in Proc /\ state[loading.procId] = "NEW"
                                /\ procCurrent = KERNEL
        /\ procCurrent \in Proc => state[procCurrent] = "ALIVE" /\ cr3 = procCurrent
<1>1. \/ loading = Nothing
      \/ /\ loading \in [procId : Proc, file : File, left : SUBSET Nat]
         /\ loading.left \subseteq Allocated(loading.file)
  BY IInvParts DEF TypeOK
<1>2. oops \in BOOLEAN
  BY IInvParts DEF TypeOK
<1>3. /\ loading # Nothing => state[loading.procId] = "NEW" /\ procCurrent = KERNEL
      /\ procCurrent \in Proc => state[procCurrent] = "ALIVE" /\ cr3 = procCurrent
  BY IInvParts DEF OneThingAtATime
<1>4. loading # Nothing => loading.procId \in Proc
  BY <1>1
<1> QED BY <1>1, <1>2, <1>3, <1>4

\* What is being worked on stays the same.
LEMMA WorkStays ==
  ASSUME IInv, UNCHANGED <<state, procCurrent, loading, assigning, processPageTables>>,
         cr3' = cr3, oops' \in BOOLEAN
  PROVE Work'
<1>1. OneThingAtATime'
  BY IInvParts DEF OneThingAtATime
<1>2. SectionIsGranted'
  BY GrantStays
<1> QED BY <1>1, <1>2, IInvParts, WorkParts DEF Work

LEMMA StepPanic ==
  ASSUME IInv, Panic PROVE IInv'
<1>1. /\ UNCHANGED <<state, procCurrent, queue, loading, physicalPages, processPageTables>>
      /\ UNCHANGED <<cr3, tlb, assigning, devices, installing>> /\ oops' \in BOOLEAN
  BY DEF Panic, pagingVars, deviceVars
<1>2. Memory'
  BY <1>1, MemoryRests
<1>3. Jobs'
  BY <1>1, JobsKept
<1>4. Work'
  BY <1>1, WorkStays
<1>5. NoStaleShare'
  BY <1>1, ShareStays
<1> QED BY <1>2, <1>3, <1>4, <1>5, AssembledNext

LEMMA StepSpawn ==
  ASSUME IInv, Spawn PROVE IInv'
<1>1. /\ procCurrent = KERNEL /\ assigning = NoAssignment /\ loading = Nothing
      /\ UNCHANGED <<procCurrent, queue, oops, physicalPages, processPageTables>>
      /\ UNCHANGED <<cr3, tlb, assigning, devices, installing>>
  BY DEF Spawn, InKernel, Idle, pagingVars, deviceVars
<1>2. PICK file \in File, p \in Proc :
        /\ state[p] = "NONE" /\ state' = [state EXCEPT ![p] = "NEW"]
        /\ loading' = [procId |-> p, file |-> file, left |-> Allocated(file)]
  BY DEF Spawn
<1>3. /\ state' \in [Proc -> {"NONE", "NEW", "ALIVE", "FINISHED"}]
      /\ \A q \in Proc : state'[q] = IF q = p THEN "NEW" ELSE state[q]
  BY <1>2, IInvParts
<1>4. Memory'
  BY <1>1, <1>3, MemoryRests
<1>5. Jobs'
  BY <1>1, <1>2, <1>3, JobsKept
<1>6. NoStaleShare'
  BY <1>1, ShareStays
<1>7. Work'
  <2>1. /\ loading' \in [procId : Proc, file : File, left : SUBSET Nat]
        /\ loading'.left \subseteq Allocated(loading'.file) /\ loading'.procId = p
    BY <1>2, AllocatedType
  <2>2. SectionIsGranted'
    BY <1>1, NothingAssigned, GrantOff
  <2>3. OneThingAtATime'
    BY <1>1, <1>3, <2>1, NothingAssigned, Numbers DEF OneThingAtATime
  <2> QED BY <1>1, <1>3, <2>1, <2>2, <2>3, WorkParts DEF Work
<1> QED BY <1>4, <1>5, <1>6, <1>7, AssembledNext

\* The loader asks for pages: for a section, or for the stack.
LEMMA StepLoad ==
  ASSUME IInv, LoadSection \/ LoadStack PROVE IInv'
<1>1. /\ loading # Nothing /\ assigning = NoAssignment
      /\ UNCHANGED <<state, procCurrent, queue, loading, oops, physicalPages, processPageTables>>
      /\ UNCHANGED <<cr3, tlb, devices, installing>>
  BY DEF LoadSection, LoadStack, Loads, procVars, deviceVars
<1>2. loading.procId \in Proc
  BY <1>1, WorkParts
<1>3. /\ assigning' \in Assignment /\ assigning'.procId = loading.procId
      /\ assigning'.left > 0 =>
           \A page \in assigning'.page .. assigning'.page + assigning'.left - 1 : page \in UserPage
  <2>1. CASE LoadSection
    <3>1. /\ loading.left # {}
          /\ k_mem_gimme(loading.procId, Section.virtualAddr, Section.fileSizeBytes)
      BY <2>1 DEF LoadSection
    <3>2. Section.virtualAddr \in 0 .. SPACE - 1 /\ Section.fileSizeBytes \in 0 .. SPACE - 1
      BY <3>1, SectionType
    <3> QED BY <1>2, <3>1, <3>2, Gimme
  <2>2. CASE LoadStack
    <3>1. k_mem_gimme(loading.procId, USER_SPACE - STACK_SIZE, STACK_SIZE)
      BY <2>2 DEF LoadStack
    <3>2. USER_SPACE - STACK_SIZE \in 0 .. SPACE - 1 /\ STACK_SIZE \in 0 .. SPACE - 1
      BY ResourcesAssumption, Spaces, Sizes DEF ResourcesAssumption
    <3> QED BY <1>2, <3>1, <3>2, Gimme
  <2> QED BY <2>1, <2>2
<1>4. SectionIsGranted'
  <2>1. CASE LoadSection
    BY <1>1, <2>1, GrantStarts DEF LoadSection
  <2>2. CASE LoadStack
    BY <1>1, <2>2, GrantOff DEF LoadStack
  <2> QED BY <2>1, <2>2
<1>5. OneThingAtATime'
  BY <1>1, <1>2, <1>3, IInvParts, Numbers DEF OneThingAtATime
<1>6. Work'
  BY <1>1, <1>4, <1>5, IInvParts, WorkParts DEF Work
<1>7. Memory'
  BY <1>1, <1>3, MemoryKept
<1>8. Jobs'
  BY <1>1, JobsKept
<1>9. NoStaleShare'
  BY <1>1, ShareStays
<1> QED BY <1>6, <1>7, <1>8, <1>9, AssembledNext

LEMMA MemoryReturned ==
  ASSUME IInv, assigning' = NoAssignment, UNCHANGED <<physicalPages, processPageTables>>,
         UNCHANGED <<cr3, tlb>> \/ KeepCR3 \/ SetCR3(cr3),
         \A p \in Proc : state'[p] = "NONE" => state[p] = "NONE"
  PROVE Memory' /\ cr3' = cr3
<1>1. cr3 \in Proc \cup {KERNEL}
  BY IInvParts
<1>2. UNCHANGED <<cr3, tlb>> \/ KeepCR3 \/ \E d \in Proc \cup {KERNEL} : SetCR3(d)
  BY <1>1
<1>3. Memory'
  BY <1>2, NothingAssigned, MemoryKept
<1> QED BY <1>3 DEF KeepCR3, SetCR3

LEMMA Flushed == ASSUME FlushAfterAssign PROVE KeepCR3 \/ SetCR3(cr3)
BY DEF FlushAfterAssign

LEMMA StepSectionLoaded ==
  ASSUME IInv, SectionLoaded PROVE IInv'
<1>1. /\ assigning' = NoAssignment /\ assigning.procId # NONE /\ loading.procId = assigning.procId
      /\ UNCHANGED <<state, procCurrent, queue, physicalPages, processPageTables, devices, installing>>
      /\ KeepCR3 \/ SetCR3(cr3)
  BY Flushed DEF SectionLoaded, AssignReturns, MEM_ONTABLE, deviceVars
<1>2. loading # Nothing /\ loading.procId \in Proc
  BY <1>1, NothingLoaded, WorkParts
<1>3. /\ loading \in [procId : Proc, file : File, left : SUBSET Nat]
      /\ loading.left \subseteq Allocated(loading.file)
  BY <1>2, WorkParts
<1>4. Memory' /\ cr3' = cr3
  BY <1>1, MemoryReturned
<1>5. Jobs'
  BY <1>1, JobsKept
<1>6. NoStaleShare'
  BY <1>1, ShareStays
<1>7. Work'
  <2>1. oops' \in BOOLEAN
    BY WorkParts DEF SectionLoaded
  <2>2. /\ loading' \in [procId : Proc, file : File, left : SUBSET Nat]
        /\ loading'.left \subseteq Allocated(loading'.file) /\ loading'.procId = loading.procId
    <3>1. CASE loading' = loading
      BY <1>3, <3>1
    <3>2. CASE loading' = [loading EXCEPT !.left = @ \ {Min(@)}]
      BY <1>3, <3>2
    <3> QED BY <3>1, <3>2 DEF SectionLoaded
  <2>3. SectionIsGranted'
    BY <1>1, NothingAssigned, GrantOff
  <2>4. OneThingAtATime'
    BY <1>1, <1>2, <1>4, <2>2, NothingAssigned, IInvParts DEF OneThingAtATime
  <2> QED BY <1>1, <2>1, <2>2, <2>3, <2>4, IInvParts DEF Work
<1> QED BY <1>4, <1>5, <1>6, <1>7, AssembledNext

LEMMA StepHatch ==
  ASSUME IInv, Hatch PROVE IInv'
<1>1. /\ assigning' = NoAssignment /\ assigning.procId # NONE /\ loading.procId = assigning.procId
      /\ UNCHANGED <<procCurrent, queue, physicalPages, processPageTables, devices, installing>>
      /\ KeepCR3 \/ SetCR3(cr3)
      /\ loading.left = {}
  BY Flushed DEF Hatch, AssignReturns, MEM_ONTABLE, deviceVars
<1> DEFINE p == loading.procId
<1>2. /\ loading # Nothing /\ p \in Proc /\ state[p] = "NEW" /\ procCurrent = KERNEL
      /\ oops \in BOOLEAN
  BY <1>1, NothingLoaded, WorkParts
<1>3. \/ oops' = TRUE /\ UNCHANGED <<state, loading>>
      \/ state' = [state EXCEPT ![p] = "ALIVE"] /\ loading' = Nothing /\ oops' = oops
  BY DEF Hatch
<1>4. /\ state' \in [Proc -> {"NONE", "NEW", "ALIVE", "FINISHED"}]
      /\ \A q \in Proc : q # p => state'[q] = state[q]
      /\ state'[p] \in {"NEW", "ALIVE"}
  BY <1>2, <1>3, IInvParts
<1>5. Memory' /\ cr3' = cr3
  BY <1>1, <1>4, MemoryReturned
<1>6. Jobs'
  BY <1>1, <1>2, <1>4, JobsKept
<1>7. NoStaleShare'
  BY <1>1, ShareStays
<1>8. Work'
  <2>1. SectionIsGranted'
    BY <1>1, NothingAssigned, GrantOff
  <2>2. OneThingAtATime'
    BY <1>1, <1>2, <1>3, NothingAssigned, Numbers DEF OneThingAtATime
  <2>3. /\ \/ loading' = Nothing
           \/ /\ loading' \in [procId : Proc, file : File, left : SUBSET Nat]
              /\ loading'.left \subseteq Allocated(loading'.file)
        /\ oops' \in BOOLEAN
    BY <1>2, <1>3, WorkParts
  <2> QED BY <1>1, <1>4, <2>1, <2>2, <2>3, IInvParts DEF Work
<1> QED BY <1>5, <1>6, <1>7, <1>8, AssembledNext

\* k_proc_cleanup: the slot of p is free, and its tables empty.
LEMMA MemoryCleaned ==
  ASSUME IInv, NEW p \in Proc, Cleaned(p), assigning' = NoAssignment
  PROVE /\ Memory' /\ cr3' = cr3
        /\ procCurrent \notin Proc /\ procCurrent' = procCurrent => NoStaleShare'
        /\ state' \in [Proc -> {"NONE", "NEW", "ALIVE", "FINISHED"}]
        /\ \A q \in Proc : state'[q] = IF q = p THEN "NONE" ELSE state[q]
<1>1. /\ state' = [state EXCEPT ![p] = "NONE"] /\ k_paging_procCleanup(p) /\ KeepCR3
  BY DEF Cleaned
<1>2. /\ state' \in [Proc -> {"NONE", "NEW", "ALIVE", "FINISHED"}]
      /\ \A q \in Proc : state'[q] = IF q = p THEN "NONE" ELSE state[q]
  BY <1>1, IInvParts
<1>3. /\ FramesAreOwned' /\ physicalPages' \in [Frame -> PhysicalPage]
      /\ processPageTables' = [processPageTables EXCEPT ![p] = NoTables]
  BY <1>1, OwnedCleaned
<1>4. /\ processPageTables' \in [Proc -> PageTables]
      /\ \A q \in Proc : processPageTables'[q] = IF q = p THEN NoTables ELSE processPageTables[q]
  BY <1>3, EmptyTables, IInvParts
<1>5. TablesAreSound'
  <2>1. TablesAreSound
    BY IInvParts
  <2>2. ASSUME NEW q \in Proc
        PROVE Sound(processPageTables'[q]) /\ (state'[q] = "NONE" => processPageTables'[q] = NoTables)
    BY <1>2, <1>4, <2>1, EmptyTables DEF TablesAreSound
  <2> QED BY <2>2 DEF TablesAreSound
<1>6. cr3' \in Proc \cup {KERNEL} /\ tlb' \subseteq UserPage \X (Frame \ {0})
  BY <1>1, ProcessorType
<1>7. PagingTypeOK'
  BY <1>3, <1>4, <1>6, NothingAssigned DEF PagingTypeOK
<1>8. procCurrent \notin Proc /\ procCurrent' = procCurrent => NoStaleShare'
  BY DEF NoStaleShare
<1> QED BY <1>1, <1>2, <1>3, <1>5, <1>7, <1>8 DEF Memory, KeepCR3

LEMMA StepNoStack ==
  ASSUME IInv, NoStack PROVE IInv'
<1>1. /\ assigning' = NoAssignment /\ assigning.procId # NONE /\ loading.procId = assigning.procId
      /\ UNCHANGED <<procCurrent, queue, oops, devices, installing>>
      /\ Cleaned(loading.procId) /\ loading' = Nothing
  BY DEF NoStack, AssignReturns, deviceVars
<1> DEFINE p == loading.procId
<1>2. /\ p \in Proc /\ state[p] = "NEW" /\ procCurrent = KERNEL /\ oops \in BOOLEAN
  BY <1>1, NothingLoaded, WorkParts
<1>3. /\ Memory' /\ cr3' = cr3 /\ NoStaleShare'
      /\ state' \in [Proc -> {"NONE", "NEW", "ALIVE", "FINISHED"}]
      /\ \A q \in Proc : state'[q] = IF q = p THEN "NONE" ELSE state[q]
  BY <1>1, <1>2, Numbers, MemoryCleaned
<1>4. Jobs'
  BY <1>1, <1>2, <1>3, JobsKept
<1>5. SectionIsGranted'
  BY <1>1, NothingAssigned, GrantOff
<1>6. OneThingAtATime'
  BY <1>1, <1>2, NothingAssigned, Numbers DEF OneThingAtATime
<1>7. Work'
  BY <1>1, <1>2, <1>3, <1>5, <1>6 DEF Work
<1> QED BY <1>3, <1>4, <1>7, AssembledNext

-----------------------------------------------------------------------------
(* Pages, given and taken.                                                 *)

LEMMA StepAssign ==
  ASSUME IInv, AssignPage, UNCHANGED <<procVars, deviceVars>> PROVE IInv'
<1> DEFINE p == assigning.procId
<1> DEFINE page == assigning.page
<1>1. /\ UNCHANGED <<state, procCurrent, queue, loading, oops, devices, installing>>
      /\ Assigning /\ KeepCR3
  BY DEF procVars, deviceVars, AssignPage
<1>2. /\ p \in Proc /\ p # NONE /\ assigning.error = "NONE"
      /\ page \in UserPage /\ assigning.left \in Nat \ {0} /\ page \in Nat
      /\ state[p] \in {"NEW", "ALIVE"} /\ (procCurrent \in Proc => p = procCurrent)
  BY <1>1, AtWork, Assigned
<1>3. /\ processPageTables' \in [Proc -> PageTables]
      /\ \A q \in Proc : /\ Sound(processPageTables'[q])
                         /\ q # p => processPageTables'[q] = processPageTables[q]
      /\ assigning' \in Assignment
  BY AssignTurn
<1>4. /\ assigning'.procId = p
      /\ \/ assigning'.page = page /\ assigning'.left = assigning.left
         \/ assigning'.page = page + 1 /\ assigning'.left = assigning.left - 1
      /\ PagesStay \/ \E f \in Frame \ {0} : Given(p, page, f)
  BY AssignTurn DEF NextTurn
<1>5. FramesAreOwned' /\ physicalPages' \in [Frame -> PhysicalPage]
  <2>1. CASE PagesStay
    <3>1. physicalPages' \in [Frame -> PhysicalPage]
      BY <2>1, IInvParts DEF PagesStay
    <3> QED BY <2>1, <3>1, OwnedStays
  <2>2. CASE \E f \in Frame \ {0} : Given(p, page, f)
    BY <1>2, <2>2, OwnedGiven
  <2> QED BY <1>4, <2>1, <2>2
<1>6. TablesAreSound'
  <2>1. \A q \in Proc : state[q] = "NONE" => q # p /\ processPageTables[q] = NoTables
    BY <1>2, IInvParts
  <2> QED BY <1>1, <1>3, <2>1 DEF TablesAreSound
<1>7. PagingTypeOK'
  <2>1. cr3' \in Proc \cup {KERNEL} /\ tlb' \subseteq UserPage \X (Frame \ {0})
    BY <1>1, ProcessorType
  <2>2. ASSUME NEW x \in assigning'.page .. assigning'.page + assigning'.left - 1
        PROVE x \in UserPage
    <3>1. x \in page .. page + assigning.left - 1
      BY <1>2, <1>4
    <3> QED BY <1>2, <3>1, IInvParts DEF PagingTypeOK
  <2> QED BY <1>3, <1>5, <2>1, <2>2 DEF PagingTypeOK
<1>8. NoStaleShare'
  <2>1. procCurrent \in Proc =>
          tlb' \subseteq tlb \cup Translations(processPageTables'[procCurrent])
    BY <1>1, PickedUp
  <2>2. procCurrent \in Proc => \A q \in Proc, y \in UserPage : q # procCurrent =>
          FrameAddress(processPageTables'[q], y) \in {FrameAddress(processPageTables[q], y), 0}
    BY <1>2, <1>3
  <2> QED BY <1>1, <1>5, <2>1, <2>2, ShareKept
<1>9. Work'
  <2>1. SectionIsGranted'
    BY <1>1, GrantTurn
  <2>2. OneThingAtATime'
    BY <1>1, <1>2, <1>4, IInvParts DEF OneThingAtATime, KeepCR3
  <2> QED BY <1>1, <2>1, <2>2, IInvParts, WorkParts DEF Work
<1>10. Jobs'
  BY <1>1, JobsKept
<1> QED BY <1>5, <1>6, <1>7, <1>8, <1>9, <1>10, AssembledNext DEF Memory

LEMMA StepMemPlz ==
  ASSUME IInv, NEW p \in Proc, MemPlz(p) PROVE IInv'
<1>1. /\ procCurrent = p /\ loading = Nothing
      /\ UNCHANGED <<state, procCurrent, queue, loading, oops, physicalPages, processPageTables>>
      /\ UNCHANGED <<cr3, tlb, devices, installing>>
  BY DEF MemPlz, Runs, Idle, procVars, deviceVars
<1>2. PICK r \in Request : k_mem_gimme(p, r[2], r[1] * MEM_PAGE_SIZE_BYTES % SPACE)
  BY DEF MemPlz
<1>3. r[2] \in 0 .. SPACE - 1 /\ r[1] * MEM_PAGE_SIZE_BYTES % SPACE \in 0 .. SPACE - 1
  <2>1. r[2] \in 0 .. SPACE - 1 /\ r[1] \in Nat
    BY ResourcesAssumption DEF ResourcesAssumption
  <2> DEFINE bytes == r[1] * MEM_PAGE_SIZE_BYTES
  <2>2. bytes \in Nat
    BY <2>1, Sizes
  <2> HIDE DEF bytes
  <2>3. bytes % SPACE \in 0 .. SPACE - 1
    BY <2>2, Spaces, Division
  <2> QED BY <2>1, <2>3 DEF bytes
<1>4. /\ assigning' \in Assignment /\ assigning'.procId = p
      /\ assigning'.left > 0 =>
           \A page \in assigning'.page .. assigning'.page + assigning'.left - 1 : page \in UserPage
  BY <1>2, <1>3, Gimme
<1>5. Memory'
  BY <1>1, <1>4, MemoryKept
<1>6. Jobs'
  BY <1>1, JobsKept
<1>7. NoStaleShare'
  BY <1>1, ShareStays
<1>8. Work'
  <2>1. SectionIsGranted'
    BY <1>1, NothingLoaded, GrantOff
  <2>2. OneThingAtATime'
    BY <1>1, <1>4, IInvParts, Numbers DEF OneThingAtATime
  <2> QED BY <1>1, <2>1, <2>2, IInvParts, WorkParts DEF Work
<1> QED BY <1>5, <1>6, <1>7, <1>8, AssembledNext

LEMMA StepMemPlzReturns ==
  ASSUME IInv, NEW p \in Proc, MemPlzReturns(p) PROVE IInv'
<1>1. /\ procCurrent = p /\ assigning' = NoAssignment
      /\ UNCHANGED <<state, procCurrent, queue, loading, oops, physicalPages, processPageTables>>
      /\ UNCHANGED <<devices, installing>>
      /\ KeepCR3 \/ SetCR3(cr3)
  BY Flushed DEF MemPlzReturns, AssignReturns, procVars, deviceVars
<1>2. Memory' /\ cr3' = cr3
  BY <1>1, MemoryReturned
<1>3. Jobs'
  BY <1>1, JobsKept
<1>4. NoStaleShare'
  BY <1>1, ShareStays
<1>5. Work'
  <2>1. SectionIsGranted'
    BY <1>1, NothingAssigned, GrantOff
  <2>2. OneThingAtATime'
    BY <1>1, <1>2, NothingAssigned, IInvParts DEF OneThingAtATime
  <2> QED BY <1>1, <2>1, <2>2, IInvParts, WorkParts DEF Work
<1> QED BY <1>2, <1>3, <1>4, <1>5, AssembledNext

LEMMA StepMemThx ==
  ASSUME IInv, NEW p \in Proc, MemThx(p) PROVE IInv'
<1>1. CASE Panic
  BY <1>1, StepPanic
<1>2. ASSUME NEW page \in Page \ {0}, Releasable(p, page), k_paging_release(p, page),
             UNCHANGED <<assigning, procVars, deviceVars>>, Runs(p)
      PROVE IInv'
  <2> DEFINE f == FrameAddress(processPageTables[p], page)
  <2> DEFINE new == assignVirtualPage(processPageTables[p], page, 0)
  <2>1. /\ UNCHANGED <<state, procCurrent, queue, loading, oops, assigning, devices, installing>>
        /\ procCurrent = p /\ KeepCR3
        /\ physicalPages' = [physicalPages EXCEPT ![f].assignCount = @ - 1]
        /\ processPageTables' = [processPageTables EXCEPT ![p] = new]
    BY <1>2 DEF procVars, deviceVars, Runs, k_paging_release
  <2>2. /\ page \in UserPage /\ f \in Frame \ {0} /\ f = FrameAddress(processPageTables[p], page)
        /\ processPageTables[p] \in PageTables /\ Sound(processPageTables[p])
    BY <1>2, AddressType, IInvParts DEF Releasable
  <2>3. processPageTables[p].pageDirectory[page \div MEM_MAX_PAGE_ENTRY] # NONE
    BY <2>2 DEF FrameAddress
  <2> HIDE DEF f
  <2>4. /\ new \in PageTables /\ Sound(new)
        /\ \A x \in UserPage :
             FrameAddress(new, x) = IF x = page THEN 0 ELSE FrameAddress(processPageTables[p], x)
    BY <2>2, <2>3, FirstFrame, PageAssigned
  <2> HIDE DEF new
  <2>5. /\ \A q \in Proc : processPageTables'[q] = IF q = p THEN new ELSE processPageTables[q]
        /\ processPageTables' \in [Proc -> PageTables]
    BY <2>1, <2>4, IInvParts
  <2>6. \A q \in Proc, x \in UserPage :
          FrameAddress(processPageTables'[q], x) =
            IF q = p /\ x = page THEN 0 ELSE FrameAddress(processPageTables[q], x)
    BY <2>4, <2>5
  <2>7. FramesAreOwned' /\ physicalPages' \in [Frame -> PhysicalPage]
    BY <2>1, <2>2, <2>6, OwnedTaken
  <2>8. TablesAreSound'
    <3>1. state[p] = "ALIVE"
      BY <2>1, WorkParts
    <3>2. \A q \in Proc : /\ Sound(processPageTables[q])
                          /\ state[q] = "NONE" => processPageTables[q] = NoTables
      BY IInvParts
    <3> QED BY <2>1, <2>4, <2>5, <3>1, <3>2 DEF TablesAreSound
  <2>9. Memory'
    <3>1. cr3' \in Proc \cup {KERNEL} /\ tlb' \subseteq UserPage \X (Frame \ {0})
      BY <2>1, ProcessorType
    <3> QED BY <2>1, <2>5, <2>7, <2>8, <3>1, IInvParts DEF Memory, PagingTypeOK
  <2>10. NoStaleShare'
    <3>1. tlb' \subseteq tlb \cup Translations(processPageTables'[procCurrent])
      BY <2>1, PickedUp
    <3>2. \A q \in Proc, y \in UserPage : q # procCurrent =>
            FrameAddress(processPageTables'[q], y) \in {FrameAddress(processPageTables[q], y), 0}
      BY <2>1, <2>6
    <3> QED BY <2>1, <2>7, <3>1, <3>2, ShareKept
  <2>11. Work'
    <3>1. loading' = Nothing
      BY <1>2 DEF Runs, Idle, procVars
    <3>2. SectionIsGranted'
      BY <3>1, NothingLoaded, GrantOff
    <3>3. OneThingAtATime'
      BY <2>1, IInvParts DEF OneThingAtATime, KeepCR3
    <3> QED BY <2>1, <3>1, <3>2, <3>3, IInvParts, WorkParts DEF Work
  <2>12. Jobs'
    BY <2>1, JobsKept
  <2> QED BY <2>9, <2>10, <2>11, <2>12, AssembledNext
<1> QED BY <1>1, <1>2 DEF MemThx

-----------------------------------------------------------------------------
(* Processes and devices.                                                  *)

LEMMA StepRun ==
  ASSUME IInv, NEW p \in Proc, Run(p) PROVE IInv'
<1>1. /\ procCurrent' = p /\ state[p] = "ALIVE" /\ assigning = NoAssignment /\ loading = Nothing
      /\ UNCHANGED <<state, queue, loading, oops, assigning, physicalPages, processPageTables>>
      /\ UNCHANGED <<devices, installing>>
      /\ SetCR3(p)
  BY DEF Run, InKernel, Idle, k_paging_switch, deviceVars
<1>2. Memory'
  BY <1>1, MemoryRests
<1>3. Jobs'
  BY <1>1, JobsKept
<1>4. NoStaleShare'
  <2>1. FramesAreOwned'
    BY <1>2 DEF Memory
  <2>2. cr3' = p /\ tlb' = Walked(processPageTables', p)
    BY <1>1 DEF SetCR3
  <2> QED BY <1>1, <2>1, <2>2, ShareSwitched
<1>5. Work'
  <2>1. SectionIsGranted'
    BY <1>1, NothingLoaded, GrantOff
  <2>2. OneThingAtATime'
    BY <1>1, NothingAssigned DEF OneThingAtATime, SetCR3
  <2> QED BY <1>1, <2>1, <2>2, IInvParts, WorkParts DEF Work
<1> QED BY <1>2, <1>3, <1>4, <1>5, AssembledNext

LEMMA StepToKernel ==
  ASSUME IInv, NEW p \in Proc, ToKernel(p) PROVE IInv'
<1>1. /\ procCurrent' = KERNEL /\ assigning = NoAssignment /\ loading = Nothing
      /\ UNCHANGED <<state, queue, loading, oops, assigning, physicalPages, processPageTables>>
      /\ UNCHANGED <<cr3, tlb, devices, installing>>
  BY DEF ToKernel, Runs, Idle, pagingVars, deviceVars
<1>2. Memory'
  BY <1>1, MemoryRests
<1>3. Jobs'
  BY <1>1, JobsKept
<1>4. NoStaleShare'
  BY <1>1, ShareStays
<1>5. Work'
  <2>1. SectionIsGranted'
    BY <1>1, NothingLoaded, GrantOff
  <2>2. OneThingAtATime'
    BY <1>1, NothingAssigned, Numbers DEF OneThingAtATime
  <2> QED BY <1>1, <2>1, <2>2, IInvParts, WorkParts DEF Work
<1> QED BY <1>2, <1>3, <1>4, <1>5, AssembledNext

\* Two more at the end of a sequence; one less at its head.
LEMMA TwoMore ==
  ASSUME NEW S, NEW s \in Seq(S), NEW a \in S, NEW b \in S
  PROVE /\ s \o <<a, b>> \in Seq(S)
        /\ DOMAIN (s \o <<a, b>>) = 1 .. Len(s) + 2
        /\ \A i \in 1 .. Len(s) : (s \o <<a, b>>)[i] = s[i]
        /\ (s \o <<a, b>>)[Len(s) + 1] = a /\ (s \o <<a, b>>)[Len(s) + 2] = b
OBVIOUS

LEMMA OneLess ==
  ASSUME NEW S, NEW s \in Seq(S), s # <<>>
  PROVE /\ Tail(s) \in Seq(S) /\ Head(s) = s[1] /\ 1 \in DOMAIN s
        /\ \A i \in DOMAIN Tail(s) : i \in Nat /\ i + 1 \in DOMAIN s /\ Tail(s)[i] = s[i + 1]
        /\ \A i \in DOMAIN s : i # 1 => i - 1 \in DOMAIN Tail(s) /\ Tail(s)[i - 1] = s[i]
OBVIOUS

\* A process that lives has no job in the queue.
LEMMA NoJob ==
  ASSUME IInv, NEW i \in DOMAIN queue
  PROVE /\ queue[i].procId \in Proc /\ queue[i].fn \in {"dev_procCleanup", "proc_cleanup"}
        /\ queue[i] = Job(queue[i].fn, queue[i].procId) /\ state[queue[i].procId] = "FINISHED"
<1>1. queue \in Seq([fn : {"dev_procCleanup", "proc_cleanup"}, procId : Proc])
  BY IInvParts
<1>2. state[queue[i].procId] = "FINISHED"
  BY IInvParts DEF JobsAreInOrder
<1> QED BY <1>1, <1>2, JobType

LEMMA JobEqual ==
  \A fn, gn, p, q : /\ Job(fn, p).fn = fn /\ Job(fn, p).procId = p
                    /\ Job(fn, p) = Job(gn, q) => fn = gn /\ p = q
<1>1. \A fn, p : Job(fn, p).fn = fn /\ Job(fn, p).procId = p
  BY DEF Job
<1> QED BY <1>1

LEMMA StepBye ==
  ASSUME IInv, NEW p \in Proc, Bye(p) PROVE IInv'
<1> DEFINE J == [fn : {"dev_procCleanup", "proc_cleanup"}, procId : Proc]
<1> DEFINE n == Len(queue)
<1>1. /\ procCurrent = p /\ procCurrent' = KERNEL /\ assigning = NoAssignment /\ loading = Nothing
      /\ queue' = queue \o <<Job("dev_procCleanup", p), Job("proc_cleanup", p)>>
      /\ state' = [state EXCEPT ![p] = "FINISHED"]
      /\ UNCHANGED <<loading, oops, assigning, physicalPages, processPageTables>>
      /\ UNCHANGED <<cr3, tlb, devices, installing>>
  BY DEF Bye, Runs, Idle, pagingVars, deviceVars
<1>2. /\ state' \in [Proc -> {"NONE", "NEW", "ALIVE", "FINISHED"}] /\ state[p] = "ALIVE"
      /\ \A q \in Proc : state'[q] = IF q = p THEN "FINISHED" ELSE state[q]
  BY <1>1, IInvParts, WorkParts
<1>3. Memory'
  BY <1>1, <1>2, MemoryRests
<1>4. NoStaleShare'
  BY <1>1, ShareStays
<1>5. Work'
  <2>1. SectionIsGranted'
    BY <1>1, NothingLoaded, GrantOff
  <2>2. OneThingAtATime'
    BY <1>1, NothingAssigned, Numbers DEF OneThingAtATime
  <2> QED BY <1>1, <1>2, <2>1, <2>2, IInvParts, WorkParts DEF Work
<1>6. /\ queue' \in Seq(J) /\ DOMAIN queue' = 1 .. n + 2 /\ DOMAIN queue = 1 .. n /\ n \in Nat
      /\ \A i \in 1 .. n : queue'[i] = queue[i]
      /\ queue'[n + 1] = Job("dev_procCleanup", p) /\ queue'[n + 2] = Job("proc_cleanup", p)
  <2>1. queue \in Seq(J) /\ Job("dev_procCleanup", p) \in J /\ Job("proc_cleanup", p) \in J
    BY IInvParts DEF Job
  <2> HIDE DEF J
  <2> DEFINE a == Job("dev_procCleanup", p)
  <2> DEFINE b == Job("proc_cleanup", p)
  <2>2. a \in J /\ b \in J /\ queue' = queue \o <<a, b>>
    BY <1>1, <2>1
  <2> HIDE DEF a, b
  <2>3. DOMAIN queue = 1 .. n /\ n \in Nat
    BY <2>1
  <2>4. /\ queue' \in Seq(J) /\ DOMAIN queue' = 1 .. n + 2
        /\ \A i \in 1 .. n : queue'[i] = queue[i]
        /\ queue'[n + 1] = a /\ queue'[n + 2] = b
    BY <2>1, <2>2, TwoMore
  <2> QED BY <2>3, <2>4 DEF a, b
<1> HIDE DEF n
<1>7. \A i \in 1 .. n : queue[i].procId \in Proc /\ queue[i].procId # p /\ state[queue[i].procId] = "FINISHED"
  BY <1>2, <1>6, NoJob
<1>8. JobsAreInOrder'
  <2>1. ASSUME NEW i \in DOMAIN queue' PROVE state'[queue'[i].procId] = "FINISHED"
    BY <1>2, <1>6, <1>7, JobEqual
  <2>2. ASSUME NEW i \in DOMAIN queue', NEW j \in DOMAIN queue', queue'[i] = queue'[j] PROVE i = j
    <3>1. CASE i \in 1 .. n /\ j \in 1 .. n
      BY <1>6, <2>2, <3>1, IInvParts DEF JobsAreInOrder
    <3>2. CASE i \in 1 .. n /\ j \notin 1 .. n
      BY <1>6, <1>7, <2>2, <3>2, JobEqual
    <3>3. CASE i \notin 1 .. n /\ j \in 1 .. n
      <4>1. queue'[j].procId # p
        BY <1>6, <1>7, <3>3
      <4>2. queue'[i].procId = p
        BY <1>6, <3>3, JobEqual
      <4> QED BY <2>2, <4>1, <4>2
    <3>4. CASE i \in {n + 1, n + 2} /\ j \in {n + 1, n + 2}
      BY <1>6, <2>2, <3>4, JobEqual
    <3> QED BY <1>6, <3>1, <3>2, <3>3, <3>4
  <2>3. ASSUME NEW i \in DOMAIN queue', NEW j \in DOMAIN queue', queue'[i].fn = "proc_cleanup",
               queue'[j] = Job("dev_procCleanup", queue'[i].procId)
        PROVE j < i
    <3>1. CASE i \in 1 .. n
      <4>1. queue[i].procId # p /\ queue'[i] = queue[i]
        BY <1>6, <1>7, <3>1
      <4>2. j \in 1 .. n
        BY <1>6, <2>3, <4>1, JobEqual
      <4>3. JobsAreInOrder
        BY IInvParts
      <4> QED BY <1>6, <2>3, <3>1, <4>1, <4>2, <4>3 DEF JobsAreInOrder
    <3>2. CASE i = n + 1
      BY <1>6, <2>3, <3>2, JobEqual
    <3>3. CASE i = n + 2
      <4>1. queue'[i].procId = p
        BY <1>6, <3>3, JobEqual
      <4>2. j # n + 2
        BY <1>6, <2>3, <4>1, JobEqual
      <4> QED BY <1>6, <3>3, <4>2
    <3> QED BY <1>6, <3>1, <3>2, <3>3
  <2> QED BY <2>1, <2>2, <2>3 DEF JobsAreInOrder
<1>9. HeldByTheLiving'
  <2>1. ASSUME NEW i \in DOMAIN devices, devices[i].holder # NOBODY, state[devices[i].holder] # "ALIVE"
        PROVE /\ devices[i].holder # p /\ state[devices[i].holder] = "FINISHED"
              /\ \E j \in DOMAIN queue' : queue'[j] = Job("dev_procCleanup", devices[i].holder)
    <3>1. /\ state[devices[i].holder] = "FINISHED"
          /\ \E j \in DOMAIN queue : queue[j] = Job("dev_procCleanup", devices[i].holder)
      BY <2>1, IInvParts DEF HeldByTheLiving
    <3> QED BY <1>2, <1>6, <2>1, <3>1
  <2>2. ASSUME NEW i \in DOMAIN devices, devices[i].holder # NOBODY
        PROVE \/ state'[devices[i].holder] = "ALIVE"
              \/ /\ state'[devices[i].holder] = "FINISHED"
                 /\ \E j \in DOMAIN queue' : queue'[j] = Job("dev_procCleanup", devices[i].holder)
    <3>1. devices[i].holder \in Proc
      BY <2>2, IInvParts
    <3>2. CASE devices[i].holder = p
      BY <1>2, <1>6, <3>2
    <3>3. CASE devices[i].holder # p /\ state[devices[i].holder] = "ALIVE"
      BY <1>2, <3>1, <3>3
    <3>4. CASE devices[i].holder # p /\ state[devices[i].holder] # "ALIVE"
      BY <1>2, <2>1, <2>2, <3>1, <3>4
    <3> QED BY <3>2, <3>3, <3>4
  <2>3. \A i \in DOMAIN devices : devices[i].listener => devices[i].holder # NOBODY
    BY IInvParts DEF HeldByTheLiving
  <2> QED BY <1>1, <2>2, <2>3 DEF HeldByTheLiving
<1>10. Jobs'
  <2>1. DevicesTypeOK' /\ \A i \in DOMAIN devices' : devices'[i].holder \in Proc \cup {NOBODY}
    BY <1>1, IInvParts DEF DevicesTypeOK
  <2> QED BY <1>6, <1>8, <1>9, <2>1 DEF Jobs
<1> QED BY <1>3, <1>4, <1>5, <1>10, AssembledNext

\* The job at the head of the queue is done.
LEMMA JobDone ==
  ASSUME IInv, queue # <<>>, queue' = Tail(queue),
         \A i \in DOMAIN queue : i # 1 => state'[queue[i].procId] = "FINISHED"
  PROVE /\ queue' \in Seq([fn : {"dev_procCleanup", "proc_cleanup"}, procId : Proc])
        /\ JobsAreInOrder' /\ Head(queue) = queue[1] /\ 1 \in DOMAIN queue
        /\ \A i \in DOMAIN queue : i # 1 => \E j \in DOMAIN queue' : queue'[j] = queue[i]
<1> DEFINE J == [fn : {"dev_procCleanup", "proc_cleanup"}, procId : Proc]
<1>1. queue \in Seq(J)
  BY IInvParts
<1> HIDE DEF J
<1>2. /\ queue' \in Seq(J) /\ Head(queue) = queue[1] /\ 1 \in DOMAIN queue
      /\ \A i \in DOMAIN queue' : i \in Nat /\ i + 1 \in DOMAIN queue /\ queue'[i] = queue[i + 1]
      /\ \A i \in DOMAIN queue : i # 1 => i - 1 \in DOMAIN queue' /\ queue'[i - 1] = queue[i]
  BY <1>1, OneLess
<1>3. \A i \in DOMAIN queue' : i \in Nat /\ i + 1 # 1
  BY <1>1, <1>2
<1>4. JobsAreInOrder'
  <2>1. JobsAreInOrder
    BY IInvParts
  <2> QED BY <1>2, <1>3, <2>1 DEF JobsAreInOrder
<1> QED BY <1>2, <1>4 DEF J

\* Who holds a device after the change, and who held it before.
LEMMA DevCleaned ==
  ASSUME IInv, NEW p \in Proc, k_dev_procCleanup(p)
  PROVE /\ DOMAIN devices' = DOMAIN devices /\ DevicesTypeOK'
        /\ \A i \in DOMAIN devices :
             /\ devices[i].holder = p => devices'[i].holder = NOBODY /\ ~devices'[i].listener
             /\ devices[i].holder # p => devices'[i] = devices[i]
<1> DEFINE D == [desc : gnwDeviceDescriptor, started : BOOLEAN, holder : Int, listener : BOOLEAN]
<1>1. /\ devices' = [i \in DOMAIN devices |->
                       IF devices[i].holder = p THEN Released(devices[i]) ELSE devices[i]]
      /\ UNCHANGED installing
  BY DEF k_dev_procCleanup
<1>2. devices \in Seq(D)
  BY IInvParts DEF DevicesTypeOK
<1>3. ASSUME NEW d \in D PROVE Released(d) \in D /\ Released(d).holder = NOBODY /\ ~Released(d).listener
  <2>1. NOBODY \in Int
    BY DEF NOBODY
  <2> QED BY <2>1 DEF Released
<1> HIDE DEF D
<1>4. Len(devices) \in Nat /\ DOMAIN devices = 1 .. Len(devices) /\ \A i \in DOMAIN devices : devices[i] \in D
  BY <1>2
<1>5. /\ DOMAIN devices' = DOMAIN devices
      /\ \A i \in DOMAIN devices :
           devices'[i] = IF devices[i].holder = p THEN Released(devices[i]) ELSE devices[i]
  BY <1>1
<1>6. devices' \in Seq(D)
  <2>1. devices' \in [1 .. Len(devices) -> D]
    BY <1>1, <1>3, <1>4
  <2> QED BY <1>4, <2>1
<1>7. DevicesTypeOK'
  BY <1>1, <1>6, IInvParts DEF DevicesTypeOK, D
<1> QED BY <1>3, <1>4, <1>5, <1>7

LEMMA StepDevCleanup ==
  ASSUME IInv, DevCleanup PROVE IInv'
<1> DEFINE p == Head(queue).procId
<1>1. /\ queue # <<>> /\ queue' = Tail(queue) /\ Head(queue).fn = "dev_procCleanup"
      /\ k_dev_procCleanup(p)
      /\ UNCHANGED <<state, procCurrent, loading, oops, physicalPages, processPageTables>>
      /\ UNCHANGED <<cr3, tlb, assigning>>
  BY DEF DevCleanup, pagingVars
<1>2. /\ queue' \in Seq([fn : {"dev_procCleanup", "proc_cleanup"}, procId : Proc])
      /\ JobsAreInOrder' /\ Head(queue) = queue[1] /\ 1 \in DOMAIN queue
      /\ \A i \in DOMAIN queue : i # 1 => \E j \in DOMAIN queue' : queue'[j] = queue[i]
  BY <1>1, NoJob, JobDone
<1>3. p \in Proc /\ NOBODY \notin Proc
  BY <1>2, NoJob DEF NOBODY, Proc
<1> HIDE DEF p
<1>4. /\ DOMAIN devices' = DOMAIN devices /\ DevicesTypeOK'
      /\ \A i \in DOMAIN devices :
           /\ devices[i].holder = p => devices'[i].holder = NOBODY /\ ~devices'[i].listener
           /\ devices[i].holder # p => devices'[i] = devices[i]
  BY <1>1, <1>3, DevCleaned
<1>5. HeldByTheLiving'
  <2>1. ASSUME NEW i \in DOMAIN devices', devices'[i].holder # NOBODY
        PROVE \/ state[devices'[i].holder] = "ALIVE"
              \/ /\ state[devices'[i].holder] = "FINISHED"
                 /\ \E j \in DOMAIN queue' : queue'[j] = Job("dev_procCleanup", devices'[i].holder)
    <3>1. devices[i].holder # p /\ devices'[i] = devices[i] /\ i \in DOMAIN devices
      BY <1>4, <2>1
    <3>2. \/ state[devices[i].holder] = "ALIVE"
          \/ /\ state[devices[i].holder] = "FINISHED"
             /\ \E j \in DOMAIN queue : queue[j] = Job("dev_procCleanup", devices[i].holder)
      BY <2>1, <3>1, IInvParts DEF HeldByTheLiving
    <3>3. ASSUME NEW j \in DOMAIN queue, queue[j] = Job("dev_procCleanup", devices[i].holder)
          PROVE j # 1
      BY <1>2, <3>1, <3>3, JobEqual DEF p
    <3> QED BY <1>2, <3>1, <3>2, <3>3
  <2>2. \A i \in DOMAIN devices : devices[i].listener => devices[i].holder # NOBODY
    BY IInvParts DEF HeldByTheLiving
  <2>3. \A i \in DOMAIN devices' : devices'[i].listener => devices'[i].holder # NOBODY
    BY <1>4, <2>2
  <2> QED BY <1>1, <2>1, <2>3 DEF HeldByTheLiving
<1>6. \A i \in DOMAIN devices' : devices'[i].holder \in Proc \cup {NOBODY}
  BY <1>4, IInvParts
<1>7. Jobs'
  BY <1>2, <1>4, <1>5, <1>6 DEF Jobs
<1>8. Memory'
  BY <1>1, MemoryRests
<1>9. NoStaleShare'
  BY <1>1, ShareStays
<1>10. Work'
  BY <1>1, WorkStays, WorkParts
<1> QED BY <1>7, <1>8, <1>9, <1>10, AssembledNext

LEMMA StepProcCleanup ==
  ASSUME IInv, ProcCleanup PROVE IInv'
<1> DEFINE p == Head(queue).procId
<1>1. /\ queue # <<>> /\ queue' = Tail(queue) /\ Head(queue).fn = "proc_cleanup"
      /\ Cleaned(p) /\ procCurrent = KERNEL /\ assigning = NoAssignment /\ loading = Nothing
      /\ UNCHANGED <<procCurrent, loading, oops, assigning, devices, installing>>
  BY DEF ProcCleanup, InKernel, Idle, deviceVars
<1>2. Head(queue) = queue[1] /\ 1 \in DOMAIN queue
  <2>1. queue \in Seq([fn : {"dev_procCleanup", "proc_cleanup"}, procId : Proc])
    BY IInvParts
  <2> QED BY <1>1, <2>1
<1>3. p \in Proc /\ state[p] = "FINISHED" /\ Head(queue) = Job("proc_cleanup", p)
  BY <1>1, <1>2, NoJob
<1> HIDE DEF p
<1>4. /\ Memory' /\ cr3' = cr3 /\ NoStaleShare'
      /\ state' \in [Proc -> {"NONE", "NEW", "ALIVE", "FINISHED"}]
      /\ \A q \in Proc : state'[q] = IF q = p THEN "NONE" ELSE state[q]
  BY <1>1, <1>3, Numbers, MemoryCleaned
\* It is the last job of p.
<1>5. ASSUME NEW i \in DOMAIN queue, i # 1 PROVE queue[i].procId # p
  <2>1. JobsAreInOrder /\ i \in Nat /\ i > 1
    BY <1>5, IInvParts
  <2>2. queue[i] = Job(queue[i].fn, queue[i].procId) /\ queue[i].fn \in {"dev_procCleanup", "proc_cleanup"}
    BY NoJob
  <2>3. queue[1].fn = "proc_cleanup" /\ queue[1].procId = p /\ queue[1] = Job("proc_cleanup", p)
    BY <1>2, <1>3, JobEqual
  <2>4. queue[i] # Job("proc_cleanup", p)
    BY <1>2, <1>5, <2>1, <2>3 DEF JobsAreInOrder
  <2>5. queue[i] # Job("dev_procCleanup", p)
    <3>1. queue[i] = Job("dev_procCleanup", queue[1].procId) => i < 1
      BY <1>2, <2>1, <2>3 DEF JobsAreInOrder
    <3> QED BY <2>1, <2>3, <3>1
  <2> QED BY <2>2, <2>4, <2>5
<1>6. \A i \in DOMAIN queue : i # 1 => state'[queue[i].procId] = "FINISHED"
  BY <1>4, <1>5, NoJob
<1>7. /\ queue' \in Seq([fn : {"dev_procCleanup", "proc_cleanup"}, procId : Proc])
      /\ JobsAreInOrder'
      /\ \A i \in DOMAIN queue : i # 1 => \E j \in DOMAIN queue' : queue'[j] = queue[i]
  BY <1>1, <1>6, JobDone
<1>8. HeldByTheLiving'
  <2>1. ASSUME NEW i \in DOMAIN devices, devices[i].holder # NOBODY
        PROVE \/ state'[devices[i].holder] = "ALIVE"
              \/ /\ state'[devices[i].holder] = "FINISHED"
                 /\ \E j \in DOMAIN queue' : queue'[j] = Job("dev_procCleanup", devices[i].holder)
    <3>1. devices[i].holder \in Proc
      BY <2>1, IInvParts
    <3>2. \/ state[devices[i].holder] = "ALIVE"
          \/ /\ state[devices[i].holder] = "FINISHED"
             /\ \E j \in DOMAIN queue : queue[j] = Job("dev_procCleanup", devices[i].holder)
      BY <2>1, IInvParts DEF HeldByTheLiving
    <3>3. ASSUME NEW j \in DOMAIN queue, queue[j] = Job("dev_procCleanup", devices[i].holder)
          PROVE j # 1 /\ devices[i].holder # p
      <4>1. j # 1
        BY <1>2, <1>3, <3>3, JobEqual
      <4> QED BY <1>5, <3>3, <4>1, JobEqual
    <3> QED BY <1>3, <1>4, <1>7, <3>1, <3>2, <3>3
  <2>2. \A i \in DOMAIN devices : devices[i].listener => devices[i].holder # NOBODY
    BY IInvParts DEF HeldByTheLiving
  <2> QED BY <1>1, <2>1, <2>2 DEF HeldByTheLiving
<1>9. Jobs'
  <2>1. DevicesTypeOK' /\ \A i \in DOMAIN devices' : devices'[i].holder \in Proc \cup {NOBODY}
    BY <1>1, IInvParts DEF DevicesTypeOK
  <2> QED BY <1>7, <1>8, <2>1 DEF Jobs
<1>10. SectionIsGranted'
  BY <1>1, NothingLoaded, GrantOff
<1>11. OneThingAtATime'
  BY <1>1, NothingAssigned, Numbers DEF OneThingAtATime
<1>12. Work'
  BY <1>1, <1>4, <1>10, <1>11, WorkParts DEF Work
<1> QED BY <1>4, <1>9, <1>12, AssembledNext

\* Only devices change.
LEMMA DeviceStep ==
  ASSUME IInv, UNCHANGED <<procVars, pagingVars>>, DevicesTypeOK', HeldByTheLiving',
         \A i \in DOMAIN devices' : devices'[i].holder \in Proc \cup {NOBODY}
  PROVE IInv'
<1>1. /\ UNCHANGED <<state, procCurrent, queue, loading, oops, physicalPages, processPageTables>>
      /\ UNCHANGED <<cr3, tlb, assigning>>
  BY DEF procVars, pagingVars
<1>2. JobsAreInOrder'
  BY <1>1, IInvParts DEF JobsAreInOrder
<1>3. Jobs'
  BY <1>1, <1>2, IInvParts DEF Jobs
<1>4. Memory'
  BY <1>1, MemoryRests
<1>5. NoStaleShare'
  BY <1>1, ShareStays
<1>6. Work'
  BY <1>1, WorkStays, WorkParts
<1> QED BY <1>3, <1>4, <1>5, <1>6, AssembledNext

Installed == [desc : gnwDeviceDescriptor, started : BOOLEAN, holder : Int, listener : BOOLEAN]

\* A device of the table is changed by a call of p, which runs.
LEMMA DeviceChanged ==
  ASSUME IInv, NEW p \in Proc, procCurrent = p, NEW i \in DOMAIN devices, NEW d,
         devices' = [devices EXCEPT ![i] = d], UNCHANGED <<installing, procVars, pagingVars>>,
         d \in Installed,
         d.holder \in {p, NOBODY}, d.listener => d.holder = p
  PROVE IInv'
<1>1. devices \in Seq(Installed) /\ d \in Installed
  BY IInvParts DEF DevicesTypeOK, Installed
<1>2. /\ devices' \in Seq(Installed) /\ DOMAIN devices' = DOMAIN devices
      /\ \A j \in DOMAIN devices : devices'[j] = IF j = i THEN d ELSE devices[j]
  BY <1>1
<1>3. DevicesTypeOK'
  BY <1>2, IInvParts DEF DevicesTypeOK, Installed
<1>4. \A j \in DOMAIN devices' : devices'[j].holder \in Proc \cup {NOBODY}
  BY <1>2, IInvParts
<1>5. HeldByTheLiving'
  <2>1. state[p] = "ALIVE" /\ UNCHANGED <<state, queue>> /\ NOBODY \notin Proc
    BY WorkParts DEF procVars, NOBODY, Proc
  <2>2. HeldByTheLiving
    BY IInvParts
  <2>3. ASSUME NEW j \in DOMAIN devices', devices'[j].holder # NOBODY
        PROVE \/ state'[devices'[j].holder] = "ALIVE"
              \/ /\ state'[devices'[j].holder] = "FINISHED"
                 /\ \E k \in DOMAIN queue' : queue'[k] = Job("dev_procCleanup", devices'[j].holder)
    <3>1. CASE j = i
      BY <1>2, <2>1, <2>3, <3>1
    <3>2. CASE j # i
      <4>1. devices'[j] = devices[j] /\ j \in DOMAIN devices
        BY <1>2, <3>2
      <4>2. \/ state[devices[j].holder] = "ALIVE"
            \/ /\ state[devices[j].holder] = "FINISHED"
               /\ \E k \in DOMAIN queue : queue[k] = Job("dev_procCleanup", devices[j].holder)
        BY <2>2, <2>3, <4>1 DEF HeldByTheLiving
      <4> QED BY <2>1, <4>1, <4>2
    <3> QED BY <3>1, <3>2
  <2>4. ASSUME NEW j \in DOMAIN devices', devices'[j].listener PROVE devices'[j].holder # NOBODY
    BY <1>2, <2>1, <2>2, <2>4 DEF HeldByTheLiving
  <2> QED BY <2>3, <2>4 DEF HeldByTheLiving
<1> QED BY <1>3, <1>4, <1>5, DeviceStep

LEMMA KnownDevice ==
  ASSUME IInv, NEW id \in DOMAIN devices, validateInstalledId(id - 1)
  PROVE /\ id \in DOMAIN devices /\ (id - 1) + 1 = id
        /\ devices[id] \in Installed
<1>1. devices \in Seq(Installed)
  BY IInvParts DEF DevicesTypeOK, Installed
<1>2. devices[id] \in Installed /\ id \in Nat
  BY <1>1
<1> QED BY <1>2

LEMMA StepDevice ==
  ASSUME IInv, NEW p \in Proc, DevAcquire(p) \/ DevRelease(p) \/ DevListen(p) PROVE IInv'
<1>1. /\ procCurrent = p /\ UNCHANGED <<procVars, pagingVars>>
      /\ p \in Int /\ NOBODY \in Int /\ p # NOBODY
  BY Sizes DEF DevAcquire, DevRelease, DevListen, Runs, Proc, NOBODY
<1>2. CASE DevAcquire(p)
  <2>1. PICK id \in DOMAIN devices : k_dev_acquireHold(p, id - 1)
    BY <1>2 DEF DevAcquire
  <2>2. /\ id \in DOMAIN devices /\ (id - 1) + 1 = id
        /\ devices[id] \in Installed
    BY <2>1, KnownDevice DEF k_dev_acquireHold
  <2>3. /\ devices[id].holder = NOBODY /\ UNCHANGED installing
        /\ devices' = [devices EXCEPT ![id].holder = p]
    BY <2>1, <2>2 DEF k_dev_acquireHold, Holds
  <2> DEFINE d == [devices[id] EXCEPT !.holder = p]
  <2>4. devices' = [devices EXCEPT ![id] = d]
    BY <2>3
  <2>5. d \in Installed
    BY <1>1, <2>2 DEF Installed
  <2>6. d.holder = p
    BY <2>2 DEF Installed
  <2> HIDE DEF d
  <2>7. UNCHANGED <<installing, procVars, pagingVars>> /\ d.holder \in {p, NOBODY}
    BY <1>1, <2>3, <2>6
  <2> QED BY <1>1, <2>2, <2>4, <2>5, <2>6, <2>7, DeviceChanged
<1>3. CASE DevRelease(p)
  <2>1. PICK id \in DOMAIN devices : k_dev_releaseHold(p, id - 1)
    BY <1>3 DEF DevRelease
  <2>2. /\ id \in DOMAIN devices /\ (id - 1) + 1 = id
        /\ devices[id] \in Installed
    BY <2>1, KnownDevice DEF k_dev_releaseHold
  <2> DEFINE d == Released(devices[id])
  <2>3. devices' = [devices EXCEPT ![id] = d] /\ UNCHANGED installing
    BY <2>1, <2>2 DEF k_dev_releaseHold
  <2>4. d \in Installed
    BY <1>1, <2>2 DEF Released, Installed
  <2>5. d.holder = NOBODY /\ ~d.listener
    BY <2>2 DEF Released, Installed
  <2> HIDE DEF d
  <2>6. UNCHANGED <<installing, procVars, pagingVars>> /\ d.holder \in {p, NOBODY}
    BY <1>1, <2>3, <2>5
  <2> QED BY <1>1, <2>2, <2>3, <2>4, <2>5, <2>6, DeviceChanged
<1>4. CASE DevListen(p)
  <2>1. PICK id \in DOMAIN devices : k_dev_listen(p, id - 1)
    BY <1>4 DEF DevListen
  <2>2. /\ id \in DOMAIN devices /\ (id - 1) + 1 = id
        /\ devices[id] \in Installed
    BY <2>1, KnownDevice DEF k_dev_listen, MayUse
  <2> DEFINE d == [devices[id] EXCEPT !.listener = TRUE]
  <2>3. /\ devices' = [devices EXCEPT ![id].listener = TRUE] /\ UNCHANGED installing
        /\ devices[id].holder = p
    BY <2>1, <2>2 DEF k_dev_listen, MayUse, Holds
  <2>4. devices' = [devices EXCEPT ![id] = d]
    BY <2>3
  <2>5. d \in Installed
    BY <2>2 DEF Installed
  <2>6. d.holder = p
    BY <2>2, <2>3 DEF Installed
  <2> HIDE DEF d
  <2>7. UNCHANGED <<installing, procVars, pagingVars>> /\ d.holder \in {p, NOBODY}
    BY <1>1, <2>3, <2>6
  <2> QED BY <1>1, <2>2, <2>4, <2>5, <2>6, <2>7, DeviceChanged
<1> QED BY <1>2, <1>3, <1>4

\* The kernel installs a driver: nobody holds its device.
LEMMA StepInstall ==
  ASSUME IInv, Install PROVE IInv'
<1> DEFINE L == [drivers : Seq(gnwDeviceDescriptor), step : {"install", "add", "start"}]
<1>1. devices \in Seq(Installed) /\ installing \in L /\ UNCHANGED <<procVars, pagingVars>>
  BY IInvParts DEF DevicesTypeOK, Install, Installed
<1>2. installing.drivers \in Seq(gnwDeviceDescriptor)
  BY <1>1
<1>3. /\ devices' \in Seq(Installed) /\ installing' \in L /\ DOMAIN devices \subseteq DOMAIN devices'
      /\ \A i \in DOMAIN devices : /\ devices'[i].holder = devices[i].holder
                                   /\ devices'[i].listener = devices[i].listener
      /\ \A i \in DOMAIN devices' \ DOMAIN devices :
           devices'[i].holder = NOBODY /\ ~devices'[i].listener
  <2>1. CASE k_hal_install
    <3>1. devices' = devices /\ installing' = [installing EXCEPT !.step = "add"]
      BY <2>1 DEF k_hal_install
    <3> QED BY <1>1, <3>1
  <2>2. CASE AddDevice
    <3>1. /\ devices' = Append(devices, device(Driver)) /\ installing.drivers # <<>>
          /\ installing' = [installing EXCEPT !.step = "start"]
      BY <2>2 DEF AddDevice, Booted
    <3>2. Driver \in gnwDeviceDescriptor
      BY <1>2, <3>1 DEF Driver
    <3> DEFINE d == device(Driver)
    <3>3. d \in Installed /\ d.holder = NOBODY /\ ~d.listener
      <4>1. NOBODY \in Int
        BY DEF NOBODY
      <4> QED BY <3>2, <4>1 DEF device, Installed
    <3>4. devices' = Append(devices, d)
      BY <3>1
    <3>5. installing' \in L
      BY <1>1, <3>1
    <3> HIDE DEF d, L
    <3>6. /\ devices' \in Seq(Installed) /\ DOMAIN devices = 1 .. Len(devices) /\ Len(devices) \in Nat
          /\ DOMAIN devices' = 1 .. Len(devices) + 1
          /\ \A i \in 1 .. Len(devices) : devices'[i] = devices[i]
          /\ devices'[Len(devices) + 1] = d
      BY <1>1, <3>3, <3>4
    <3> QED BY <3>3, <3>5, <3>6
  <2>3. CASE k_dev_start
    <3>1. /\ devices' = [devices EXCEPT ![Len(devices)].started = TRUE] /\ installing.drivers # <<>>
          /\ installing' = [drivers |-> Tail(installing.drivers), step |-> "install"]
      BY <2>3 DEF k_dev_start, Booted
    <3>2. installing' \in L
      BY <1>2, <3>1
    <3> DEFINE n == Len(devices)
    <3>3. DOMAIN devices = 1 .. n /\ n \in Nat /\ devices \in [1 .. n -> Installed]
      BY <1>1 DEF n
    <3> HIDE DEF n
    <3>4. devices' = [i \in 1 .. n |-> IF i = n THEN [devices[n] EXCEPT !.started = TRUE] ELSE devices[i]]
      BY <3>1, <3>3 DEF n
    <3>5. \A i \in 1 .. n : /\ devices[i] \in Installed
                            /\ devices'[i] = IF i = n THEN [devices[n] EXCEPT !.started = TRUE] ELSE devices[i]
      BY <3>3, <3>4
    <3>6. ASSUME NEW i \in 1 .. n
          PROVE /\ devices'[i] \in Installed /\ devices'[i].holder = devices[i].holder
                /\ devices'[i].listener = devices[i].listener
      <4>1. devices'[i] = devices[i] \/ devices'[i] = [devices[i] EXCEPT !.started = TRUE]
        BY <3>5
      <4> DEFINE d == devices[i]
      <4> DEFINE e == devices'[i]
      <4>2. d \in Installed /\ (e = d \/ e = [d EXCEPT !.started = TRUE])
        BY <3>5, <4>1
      <4> HIDE DEF d, e
      <4>3. e \in Installed /\ e.holder = d.holder /\ e.listener = d.listener
        BY <4>2 DEF Installed
      <4> QED BY <4>3 DEF d, e
    <3> HIDE DEF L
    <3>7. devices' \in [1 .. n -> Installed] /\ DOMAIN devices' = 1 .. n
      BY <3>4, <3>6
    <3>8. devices' \in Seq(Installed)
      BY <3>3, <3>7
    <3> QED BY <3>2, <3>3, <3>6, <3>7, <3>8
  <2> QED BY <2>1, <2>2, <2>3 DEF Install
<1> HIDE DEF L
<1>4. DevicesTypeOK'
  BY <1>3 DEF DevicesTypeOK, Installed, L
<1>5. \A i \in DOMAIN devices' : devices'[i].holder \in Proc \cup {NOBODY}
  BY <1>3, IInvParts
<1>6. HeldByTheLiving'
  <2>1. HeldByTheLiving /\ UNCHANGED <<state, queue>>
    BY <1>1, IInvParts DEF procVars
  <2>2. ASSUME NEW i \in DOMAIN devices, devices[i].holder # NOBODY
        PROVE \/ state[devices[i].holder] = "ALIVE"
              \/ /\ state[devices[i].holder] = "FINISHED"
                 /\ \E j \in DOMAIN queue : queue[j] = Job("dev_procCleanup", devices[i].holder)
    BY <2>1, <2>2 DEF HeldByTheLiving
  <2>3. \A i \in DOMAIN devices : devices[i].listener => devices[i].holder # NOBODY
    BY <2>1 DEF HeldByTheLiving
  <2> QED BY <1>3, <2>1, <2>2, <2>3 DEF HeldByTheLiving
<1> QED BY <1>1, <1>4, <1>5, <1>6, DeviceStep

-----------------------------------------------------------------------------
(* The theorems.                                                           *)

LEMMA InitHolds == Init => IInv
<1> SUFFICES ASSUME Init PROVE IInv
  OBVIOUS
<1>1. /\ physicalPages = initializePhysicalMemoryMap
      /\ processPageTables = [p \in Proc |-> NoTables]
      /\ cr3 = KERNEL /\ tlb = {} /\ assigning = NoAssignment
      /\ state = [p \in Proc |-> "NONE"] /\ procCurrent = KERNEL /\ queue = <<>>
      /\ loading = Nothing /\ oops = FALSE /\ devices = <<>>
  BY DEF Init, PagingInit, DevicesInit
<1>2. \A f \in Frame :
        /\ physicalPages[f] \in PhysicalPage /\ physicalPages[f].assignCount \in {0, 1}
        /\ physicalPages[f].assignCount = 1 <=> physicalPages[f].reserved
        /\ physicalPages[f].present /\ Reserved(f) => physicalPages[f].reserved
  <2> SUFFICES ASSUME NEW f \in Frame
               PROVE /\ physicalPages[f] \in PhysicalPage /\ physicalPages[f].assignCount \in {0, 1}
                     /\ physicalPages[f].assignCount = 1 <=> physicalPages[f].reserved
                     /\ physicalPages[f].present /\ Reserved(f) => physicalPages[f].reserved
    OBVIOUS
  <2> DEFINE present == MappedBy(f) # {}
  <2> DEFINE available == present /\ memMap[Max(MappedBy(f))].type = "MEMORY"
  <2> DEFINE reserved == present /\ Reserved(f)
  <2>1. physicalPages[f] = [present |-> present, available |-> available, reserved |-> reserved,
                            assignCount |-> IF reserved THEN 1 ELSE 0]
    BY <1>1 DEF initializePhysicalMemoryMap
  <2>2. present \in BOOLEAN /\ available \in BOOLEAN /\ reserved \in BOOLEAN
    OBVIOUS
  <2>3. present /\ Reserved(f) => reserved
    OBVIOUS
  <2> HIDE DEF present, available, reserved
  <2>4. /\ physicalPages[f].present = present /\ physicalPages[f].reserved = reserved
        /\ physicalPages[f].assignCount = IF reserved THEN 1 ELSE 0
    BY <2>1
  <2>5. physicalPages[f] \in PhysicalPage
    BY <2>1, <2>2 DEF PhysicalPage
  <2> QED BY <2>2, <2>3, <2>4, <2>5
<1>3. physicalPages \in [Frame -> PhysicalPage]
  BY <1>1, <1>2 DEF initializePhysicalMemoryMap
<1>4. FramesAreOwned
  <2>1. ~isPhysicalPageFree(0)
    BY <1>2, FirstFrame DEF isPhysicalPageFree
  <2>2. \A p \in Proc, x \in UserPage : FrameAddress(processPageTables[p], x) = 0
    BY <1>1, EmptyTables
  <2>3. ASSUME NEW f \in Frame \ {0} PROVE Owned(physicalPages[f], f, processPageTables)
    BY <1>2, <2>2 DEF Owned
  <2> QED BY <2>1, <2>3 DEF FramesAreOwned
<1>5. TablesAreSound /\ processPageTables \in [Proc -> PageTables]
  BY <1>1, EmptyTables DEF TablesAreSound
<1>6. PagingTypeOK
  BY <1>1, <1>3, <1>5, NothingAssigned DEF PagingTypeOK
<1>7. NoStaleShare
  BY <1>1, Numbers DEF NoStaleShare
<1>8. Work
  <2>1. OneThingAtATime
    BY <1>1, NothingAssigned, Numbers DEF OneThingAtATime
  <2>2. SectionIsGranted
    BY <1>1, NothingLoaded DEF SectionIsGranted
  <2> QED BY <1>1, <2>1, <2>2 DEF Work
<1>9. Jobs
  <2>1. DevicesTypeOK
    <3>1. PICK drivers \in Drivers : installing = [drivers |-> drivers, step |-> "install"]
      BY DEF Init, DevicesInit
    <3>2. drivers \in Seq(gnwDeviceDescriptor)
      BY DevicesAssumption DEF DevicesAssumption
    <3> QED BY <1>1, <3>1, <3>2 DEF DevicesTypeOK
  <2> QED BY <1>1, <2>1 DEF Jobs, JobsAreInOrder, HeldByTheLiving
<1> QED BY <1>4, <1>5, <1>6, <1>7, <1>8, <1>9, Assembled DEF Memory

LEMMA NextKeeps == IInv /\ [Next]_vars => IInv'
<1> SUFFICES ASSUME IInv, [Next]_vars PROVE IInv'
  OBVIOUS
<1>1. CASE Install
  BY <1>1, StepInstall
<1>2. CASE LoadPanics \/ \E irq \in Irq : Interrupt(irq)
  BY <1>2, StepPanic DEF LoadPanics, Interrupt
<1>3. CASE Spawn
  BY <1>3, StepSpawn
<1>4. CASE LoadSection \/ LoadStack
  BY <1>4, StepLoad
<1>5. CASE SectionLoaded
  BY <1>5, StepSectionLoaded
<1>6. CASE Hatch
  BY <1>6, StepHatch
<1>7. CASE NoStack
  BY <1>7, StepNoStack
<1>8. CASE AssignPage /\ UNCHANGED <<procVars, deviceVars>>
  BY <1>8, StepAssign
<1>9. CASE DevCleanup
  BY <1>9, StepDevCleanup
<1>10. CASE ProcCleanup
  BY <1>10, StepProcCleanup
<1>11. ASSUME NEW p \in Proc, Run(p) \/ ToKernel(p) \/ Bye(p) PROVE IInv'
  BY <1>11, StepRun, StepToKernel, StepBye
<1>12. ASSUME NEW p \in Proc, MemPlz(p) \/ MemPlzReturns(p) \/ MemThx(p) PROVE IInv'
  BY <1>12, StepMemPlz, StepMemPlzReturns, StepMemThx
<1>13. ASSUME NEW p \in Proc, DevAcquire(p) \/ DevRelease(p) \/ DevListen(p) PROVE IInv'
  BY <1>13, StepDevice
<1>14. ASSUME NEW p \in Proc, DevUnknown(p) PROVE IInv'
  BY <1>14, StepPanic DEF DevUnknown
<1>15. CASE UNCHANGED vars
  <2>1. UNCHANGED <<procVars, pagingVars, deviceVars>>
    BY <1>15 DEF vars
  <2>2. DevicesTypeOK' /\ HeldByTheLiving' /\ \A i \in DOMAIN devices' : devices'[i].holder \in Proc \cup {NOBODY}
    BY <2>1, IInvParts DEF DevicesTypeOK, HeldByTheLiving, procVars, deviceVars
  <2> QED BY <2>1, <2>2, DeviceStep
<1> QED BY <1>1, <1>2, <1>3, <1>4, <1>5, <1>6, <1>7, <1>8, <1>9, <1>10, <1>11, <1>12, <1>13, <1>14, <1>15
        DEF Next

\* What every step keeps is always so: the types, the tables, the owners of the
\* pages, the one thing the kernel works on, and the order of the jobs.
THEOREM WhatIsKept == Spec => []IInv
BY InitHolds, NextKeeps, PTL DEF Spec

\* No physical page is lost, given twice or given of the kernel's, whatever the
\* processes ask for, fail to get, give back and leave behind (hal/paging).
THEOREM PagesAreAccountedFor == Spec => []FramesAreAccountedFor
<1>1. ASSUME IInv PROVE FramesAreAccountedFor
  <2> SUFFICES ASSUME NEW f \in Frame \ {0}
               PROVE /\ physicalPages[f].assignCount =
                          Cardinality(Users(f)) + (IF physicalPages[f].reserved THEN 1 ELSE 0)
                     /\ physicalPages[f].assignCount <= 1
                     /\ \A u \in Users(f) : state[u[1]] # "NONE"
    BY DEF FramesAreAccountedFor
  <2>1. Owned(physicalPages[f], f, processPageTables)
    BY <1>1, IInvParts DEF FramesAreOwned
  <2>2. /\ physicalPages[f].assignCount \in {0, 1}
        /\ physicalPages[f].reserved \in BOOLEAN
    BY <1>1, <2>1, IInvParts DEF Owned, PhysicalPage
  <2>3. \A u \in Users(f) : /\ u[1] \in Proc /\ u[2] \in UserPage /\ u = <<u[1], u[2]>>
                            /\ FrameAddress(processPageTables[u[1]], u[2]) = f
    BY DEF Users
  <2>4. \A p \in Proc, x \in UserPage : FrameAddress(processPageTables[p], x) = f => <<p, x>> \in Users(f)
    BY DEF Users
  <2>5. \A u, w \in Users(f) : u = w
    <3>1. ASSUME NEW u \in Users(f), NEW w \in Users(f) PROVE u[1] = w[1] /\ u[2] = w[2]
      BY <2>1, <2>3 DEF Owned
    <3> QED BY <2>3, <3>1
  <2>6. ASSUME NEW u \in Users(f) PROVE state[u[1]] # "NONE"
    <3>1. FrameAddress(processPageTables[u[1]], u[2]) # 0 /\ u[1] \in Proc /\ u[2] \in UserPage
      BY <2>3
    <3>2. processPageTables[u[1]] # NoTables
      BY <3>1, EmptyTables
    <3> QED BY <1>1, <3>1, <3>2, IInvParts
  <2>7. CASE Users(f) = {}
    <3>1. Cardinality(Users(f)) = 0
      BY <2>7, FS_EmptySet
    <3>2. ~(physicalPages[f].assignCount = 1 /\ ~physicalPages[f].reserved)
      BY <2>1, <2>4, <2>7 DEF Owned
    <3>3. physicalPages[f].assignCount = 0 => ~physicalPages[f].reserved
      BY <2>1 DEF Owned
    <3> QED BY <2>2, <2>6, <3>1, <3>2, <3>3
  <2>8. CASE Users(f) # {}
    <3>1. PICK u \in Users(f) : TRUE
      BY <2>8
    <3>2. Users(f) = {u}
      BY <2>5, <3>1
    <3>3. Cardinality(Users(f)) = 1
      BY <3>2, FS_Singleton
    <3>4. physicalPages[f].assignCount = 1 /\ ~physicalPages[f].reserved
      BY <2>1, <2>3, <3>1 DEF Owned
    <3> QED BY <2>6, <3>3, <3>4
  <2> QED BY <2>7, <2>8
<1> QED BY <1>1, WhatIsKept, PTL

\* A process that runs reaches the pages of no other one, not through the
\* translations the processor remembers either (k_paging_switch, MEM_ONTABLE).
THEOREM NothingIsShared == Spec => []NoStaleShare
<1>1. IInv => NoStaleShare
  BY IInvParts
<1> QED BY <1>1, WhatIsKept, PTL

\* The loader clears and fills a section where all of it is memory of the
\* process it starts (k_mem_gimme rounds the end of the section, not its size).
THEOREM SectionsAreMapped == Spec => []LoadedIsMapped
<1>1. ASSUME IInv PROVE LoadedIsMapped
  <2> DEFINE first == Section.virtualAddr
  <2> DEFINE size == Section.fileSizeBytes
  <2>1. SUFFICES ASSUME loading.left # {}, assigning.procId # NONE, ~Assigning, Granted,
                        NEW b \in first .. first + size - 1
                 PROVE FrameAddress(processPageTables[loading.procId], b \div MEM_PAGE_SIZE_BYTES) # 0
    BY DEF LoadedIsMapped
  <2>2. first \in Nat /\ size \in Nat
    <3>1. first \in 0 .. SPACE - 1 /\ size \in 0 .. SPACE - 1
      BY <1>1, <2>1, SectionType
    <3> QED BY <3>1, Spaces
  <2>3. assigning.error = "NONE" /\ assigning.left = 0 /\ assigning.page \in Nat
    <3>1. /\ assigning.error \in {"NONE", "INVALID_ARGUMENT", "OUT_OF_PAGES", "OUT_OF_MEMORY"}
          /\ assigning.left \in Nat /\ assigning.page \in Nat
      BY <1>1, IInvParts DEF Assignment
    <3>2. assigning.error = "NONE"
      BY <2>1, <3>1 DEF Granted, AssignResult
    <3> QED BY <2>1, <3>1, <3>2 DEF Assigning
  <2>4. /\ \A page \in first \div MEM_PAGE_SIZE_BYTES .. assigning.page - 1 :
             FrameAddress(processPageTables[loading.procId], page) # 0
        /\ b \div MEM_PAGE_SIZE_BYTES < assigning.page + assigning.left
    <3>1. b \in first .. (first + size) - 1
      BY <2>2
    <3> QED BY <1>1, <2>1, <2>3, <3>1, IInvParts DEF SectionIsGranted
  <2> HIDE DEF first, size
  <2>5. b \in Nat /\ first <= b
    BY <2>2
  <2>6. /\ b \div MEM_PAGE_SIZE_BYTES \in Nat /\ first \div MEM_PAGE_SIZE_BYTES \in Nat
        /\ first \div MEM_PAGE_SIZE_BYTES <= b \div MEM_PAGE_SIZE_BYTES
    BY <2>2, <2>5, Ordered
  <2> QED BY <2>3, <2>4, <2>6
<1> QED BY <1>1, WhatIsKept, PTL

\* A device is held by a process that lives, or whose end has queued the job
\* that takes it back before its slot is free (k_dev_procCleanup before
\* k_proc_cleanup): no interrupt ever finds a holder that is gone.
THEOREM HoldersAreThere == Spec => []HeldByTheLiving
<1>1. IInv => HeldByTheLiving
  BY IInvParts
<1> QED BY <1>1, WhatIsKept, PTL

=============================================================================
