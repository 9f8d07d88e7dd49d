-------------------------- MODULE ResponseStreamProofs --------------------------
(***************************************************************************)
(* Proofs about ResponseStream, for every size of the buffer and of the    *)
(* pieces that satisfies what the comments of dir_stream_next count on,    *)
(* and for directories and files of every length: nothing is written past  *)
(* the buffer, no entry is lost or repeated, the Content-Length is right,  *)
(* each step is one that Delivery allows, and no step leaves as much to do *)
(* as before.                                                              *)
(***************************************************************************)
EXTENDS ResponseStream, FiniteSetTheorems, SequenceTheorems, TLAPS

USE DEF given, dirVars, filVars

(* Which stream is open where, and how far its generator is.               *)
InListing == at \in {"rows", "row", "footer"}
Streaming == at \in {"call", "send"} \/ InListing

Control ==
    /\ at = "serve" => /\ kind = "none" /\ phase = "intro" /\ fetched = 0 /\ ~pending
                       /\ page = <<>> /\ announced = 0
    /\ at \in {"serve", "peeked", "head"} => made = 0 /\ ~failed
    /\ at = "peeked" => kind = "file" /\ remaining = announced
    /\ at = "head" => (kind = "none" => announced = 0) /\ (kind = "dir" => phase = "intro")
    /\ Streaming => kind # "none"
    /\ InListing => kind = "dir"
    /\ at \in {"rows", "row"} => phase = "entries"
    /\ at = "row" => pending
    /\ (at = "footer") <=> (phase = "footer")

(* The enumeration: an entry is pending only after it was fetched, and the *)
(* page is closed only when none is left.                                  *)
Enumeration ==
    /\ pending => fetched > 0
    /\ kind = "dir" => (findOpen <=> entry # <<>>)
    /\ kind = "dir" /\ phase \in {"footer", "done"} => fetched = Len(entry) /\ ~pending

(* While a listing is generated there is room left for the footer.         *)
Room == /\ InListing => pos + FooterLen <= BufSize
        /\ pos <= BufSize

(* What is in the buffer has been made and not yet sent.                   *)
Account ==
    /\ sent <= made
    /\ pos = 0 <=> sent = made
    /\ at \in {"serve", "peeked", "head", "call"} => pos = 0

(* An empty chunk is the end of the stream.                                *)
EmptyIsEnd ==
    /\ at = "send" /\ pos = 0 /\ ~failed =>
         (kind = "dir" => phase = "done") /\ (kind = "file" => remaining = 0)
    /\ at \in {"close", "closed"} /\ ~failed => sent = announced

(* No row is emitted before its entry was fetched.                         *)
PageSoFar == \A i \in 1 .. Len(page) : page[i] <= Emitted

(* The pieces of a page: the opening markup, the rows, the footer.         *)
PiecesUpTo(n) == Cardinality(Rows(entry, n)) + (IF phase = "intro" THEN 0 ELSE 1)
                                             + (IF phase = "done" THEN 1 ELSE 0)

Count == kind = "dir" => /\ announced = 2 + Cardinality(Rows(entry, Len(entry)))
                         /\ made = PiecesUpTo(Emitted)

IInv == /\ TypeOK /\ Control /\ Enumeration /\ Room /\ Account /\ EmptyIsEnd
        /\ EachEntryOnce /\ PageSoFar /\ LengthKept /\ Count
-----------------------------------------------------------------------------
LEMMA Lengths ==
    /\ BufSize \in Nat \ {0} /\ TailReserve \in Nat \ {0} /\ IntroLen \in Nat \ {0}
    /\ ParentLen \in Nat \ {0} /\ FooterLen \in Nat \ {0}
    /\ RowLens \subseteq Nat \ {0} /\ FileSizes \subseteq Nat
    /\ MaxEntries \in Nat /\ SizeModulus \in Nat \ {0}
BY StreamAssumption

LEMMA SizeLowRange == ASSUME NEW n \in Nat PROVE SizeLow(n) \in 0 .. SizeModulus - 1
BY Lengths DEF SizeLow

LEMMA DirectorySeq ==
  ASSUME NEW dir \in Directories
  PROVE  dir \in Seq(RowLens \cup {Dots}) /\ (dir # <<>> => Len(dir) > 0)
<1>1. PICK n \in 0 .. MaxEntries : dir \in [1 .. n -> RowLens \cup {Dots}]
  BY DEF Directories
<1>2. n \in Nat
  BY Lengths
<1>3. dir \in Seq(RowLens \cup {Dots})
  BY <1>1, <1>2, SeqDef
<1>4. dir # <<>> => Len(dir) > 0
  BY <1>3, EmptySeq, LenProperties
<1> QED BY <1>3, <1>4

(* Counting the rows of the entries up to one.                             *)
LEMMA RowsFinite ==
  ASSUME NEW dir, NEW n \in Nat
  PROVE  IsFiniteSet(Rows(dir, n)) /\ Cardinality(Rows(dir, n)) \in Nat
<1>1. IsFiniteSet(1 .. n)
  BY FS_Interval
<1>2. Rows(dir, n) \in SUBSET (1 .. n)
  BY DEF Rows
<1>3. IsFiniteSet(Rows(dir, n))
  BY <1>1, <1>2, FS_Subset
<1> QED BY <1>3, FS_CardinalityType

LEMMA RowsBetween ==
  ASSUME NEW dir, NEW m \in Nat, NEW n \in Nat, m <= n
  PROVE  Cardinality(Rows(dir, m)) <= Cardinality(Rows(dir, n))
<1>1. Rows(dir, m) \in SUBSET Rows(dir, n)
  BY DEF Rows
<1> QED BY <1>1, RowsFinite, FS_Subset

LEMMA RowsNone == ASSUME NEW dir PROVE Cardinality(Rows(dir, 0)) = 0
<1>1. Rows(dir, 0) = {}
  BY DEF Rows
<1> QED BY <1>1, FS_EmptySet

LEMMA RowsNext ==
  ASSUME NEW dir, NEW n \in Nat, n > 0
  PROVE  Cardinality(Rows(dir, n)) =
           Cardinality(Rows(dir, n - 1)) + (IF dir[n] = Dots THEN 0 ELSE 1)
<1>1. CASE dir[n] = Dots
  <2>1. Rows(dir, n) = Rows(dir, n - 1)
    BY <1>1 DEF Rows
  <2>2. Cardinality(Rows(dir, n - 1)) \in Nat
    BY RowsFinite
  <2> QED BY <1>1, <2>1, <2>2
<1>2. CASE dir[n] # Dots
  <2>1. Rows(dir, n) = Rows(dir, n - 1) \cup {n} /\ n \notin Rows(dir, n - 1)
    BY <1>2 DEF Rows
  <2>2. IsFiniteSet(Rows(dir, n - 1))
    BY RowsFinite
  <2>3. Cardinality(Rows(dir, n)) = Cardinality(Rows(dir, n - 1)) + 1
    BY <2>1, <2>2, FS_AddElement
  <2> QED BY <1>2, <2>3
<1> QED BY <1>1, <1>2

(* The entry that is looked at has a row, or is one of the dots.           *)
LEMMA EntryAt ==
  ASSUME TypeOK, Enumeration, pending
  PROVE  /\ fetched \in 1 .. Len(entry)
         /\ entry[fetched] \in RowLens \cup {Dots}
         /\ entry[fetched] # Dots => entry[fetched] \in Nat /\ entry[fetched] > 0
<1>1. Len(entry) \in Nat /\ fetched \in 1 .. Len(entry)
  BY LenProperties DEF TypeOK, Enumeration
<1>2. entry[fetched] \in RowLens \cup {Dots}
  BY <1>1, ElementOfSeq DEF TypeOK
<1>3. ASSUME entry[fetched] # Dots PROVE entry[fetched] \in Nat /\ entry[fetched] > 0
  <2>1. entry[fetched] \in RowLens
    BY <1>2, <1>3
  <2>2. entry[fetched] \in Nat \ {0}
    BY <2>1, Lengths
  <2> QED BY <2>2
<1> QED BY <1>1, <1>2, <1>3
-----------------------------------------------------------------------------
LEMMA TypeInit == Init => TypeOK
<1> SUFFICES ASSUME Init PROVE TypeOK OBVIOUS
<1>1. entry \in Seq(RowLens \cup {Dots}) /\ page \in Seq(1 .. Len(entry)) /\ fetched \in 0 .. Len(entry)
  <2>1. entry = <<>> /\ page = <<>> /\ fetched = 0
    BY DEF Init
  <2>2. entry \in Seq(RowLens \cup {Dots}) /\ page \in Seq(1 .. Len(entry))
    BY <2>1, EmptySeq
  <2>3. Len(entry) = 0
    BY <2>1
  <2> QED BY <2>1, <2>2, <2>3
<1>2. remaining \in 0 .. SizeModulus - 1
  BY Lengths DEF Init
<1>3. /\ size \in Nat /\ offset \in Nat /\ pos \in Nat
      /\ made \in Nat /\ sent \in Nat /\ announced \in Nat
  BY DEF Init
<1>4. /\ atRoot \in BOOLEAN /\ findOpen \in BOOLEAN /\ pending \in BOOLEAN /\ failed \in BOOLEAN
      /\ kind \in Kinds /\ phase \in Phases /\ at \in Places
  BY DEF Init, Kinds, Phases, Places
<1> QED BY <1>1, <1>2, <1>3, <1>4 DEF TypeOK

LEMMA TypeStep == TypeOK /\ Control /\ Enumeration /\ Account /\ [Next]_vars => TypeOK'
<1> SUFFICES ASSUME TypeOK, Control, Enumeration, Account, [Next]_vars PROVE TypeOK'
  OBVIOUS
<1> USE DEF Kinds, Phases, Places
<1>0. Len(entry) \in Nat
  BY LenProperties DEF TypeOK
<1>1. CASE ServeInline \/ Resume \/ HaveEntry \/ ListingDone \/ FileEnd \/ ReadFails
  <2>1. CASE ServeInline
    BY <2>1 DEF TypeOK, ServeInline
  <2>2. CASE Resume
    BY <2>2 DEF TypeOK, Resume
  <2>3. CASE HaveEntry
    BY <2>3 DEF TypeOK, HaveEntry
  <2>4. CASE ListingDone
    BY <2>4 DEF TypeOK, ListingDone
  <2>5. CASE FileEnd
    BY <2>5 DEF TypeOK, FileEnd
  <2>6. CASE ReadFails
    BY <2>6 DEF TypeOK, ReadFails
  <2> QED BY <1>1, <2>1, <2>2, <2>3, <2>4, <2>5, <2>6
<1>2. CASE SendFails \/ BodyEnds \/ StreamClose \/ SendChunk \/ \E ok \in BOOLEAN : SendHead(ok)
  <2>1. CASE SendFails
    BY <2>1 DEF TypeOK, SendFails
  <2>2. CASE BodyEnds
    BY <2>2 DEF TypeOK, BodyEnds
  <2>3. CASE StreamClose
    BY <2>3 DEF TypeOK, StreamClose
  <2>4. CASE SendChunk
    BY <2>4 DEF TypeOK, SendChunk
  <2>5. ASSUME NEW ok \in BOOLEAN, SendHead(ok) PROVE TypeOK'
    BY <2>5 DEF TypeOK, SendHead
  <2> QED BY <1>2, <2>1, <2>2, <2>3, <2>4, <2>5
<1>3. CASE Rewind
  BY <1>3 DEF TypeOK, Rewind, OffsetAfterPeek
<1>4. ASSUME NEW dir \in Directories, NEW root \in BOOLEAN, ServeListing(dir, root)
      PROVE  TypeOK'
  <2>1. dir \in Seq(RowLens \cup {Dots}) /\ (dir # <<>> => Len(dir) > 0) /\ Len(dir) \in Nat
    BY DirectorySeq, LenProperties
  <2>2. fetched' \in 0 .. Len(dir)
    BY <1>4, <2>1 DEF ServeListing
  <2>3. page' \in Seq(1 .. Len(dir))
    BY <1>4, EmptySeq DEF ServeListing, Control
  <2>4. announced' \in Nat
    BY <1>4, <2>1, RowsFinite DEF ServeListing
  <2> QED BY <1>4, <2>1, <2>2, <2>3, <2>4 DEF TypeOK, ServeListing
<1>5. ASSUME NEW n \in FileSizes, ServeFile(n) PROVE TypeOK'
  <2>1. n \in Nat /\ SizeLow(n) \in 0 .. SizeModulus - 1 /\ SizeModulus \in Nat
    BY Lengths, SizeLowRange
  <2>2. size' \in Nat /\ UNCHANGED <<entry, atRoot, dirVars, pos, made, sent, failed>>
    BY <1>5, <2>1 DEF ServeFile
  <2>3. CASE SizeLow(n) = SizeModulus - 1
    BY <1>5, <2>2, <2>3 DEF TypeOK, ServeFile
  <2>4. CASE SizeLow(n) # SizeModulus - 1
    <3>1. /\ kind' = "file" /\ at' = "peeked" /\ remaining' = SizeLow(n)
          /\ announced' = SizeLow(n) /\ offset' \in 0 .. n
      BY <1>5, <2>4 DEF ServeFile
    <3>2. announced' \in Nat /\ offset' \in Nat /\ remaining' \in 0 .. SizeModulus - 1
      BY <2>1, <3>1
    <3> QED BY <2>2, <3>1, <3>2 DEF TypeOK
  <2> QED BY <2>3, <2>4
<1>6. ASSUME NEW n \in 1 .. BufSize, ReadChunk(n) PROVE TypeOK'
  <2>1. remaining' = remaining - n /\ n <= remaining /\ BufSize \in Nat
    BY <1>6, Lengths DEF ReadChunk, RemainingAfter, ToRead, TypeOK
  <2>2. remaining' \in 0 .. SizeModulus - 1
    BY <2>1, Lengths DEF TypeOK
  <2> QED BY <1>6, <2>1, <2>2 DEF TypeOK, ReadChunk
<1>7. CASE Intro
  <2>1. pos' \in Nat /\ made' \in Nat
    BY <1>7, Lengths DEF TypeOK, Intro
  <2> QED BY <1>7, <2>1 DEF TypeOK, Intro
<1>8. CASE FindNext
  BY <1>0, <1>8 DEF TypeOK, FindNext
<1>9. CASE NoMoreEntries \/ SkipDots
  BY <1>9 DEF TypeOK, NoMoreEntries, SkipDots
<1>10. CASE EmitRow
  <2>1. pending
    BY <1>10 DEF EmitRow, Control
  <2>2. pos' \in Nat /\ made' \in Nat
    BY <1>10, <2>1, EntryAt DEF TypeOK, EmitRow
  <2>3. page' \in Seq(1 .. Len(entry))
    BY <1>10, <2>1, EntryAt, AppendProperties DEF TypeOK, EmitRow
  <2> QED BY <1>10, <2>2, <2>3 DEF TypeOK, EmitRow, PendingAfterRow
<1>11. CASE CarryOver
  BY <1>11 DEF TypeOK, CarryOver, PendingCarriedOver
<1>12. CASE Footer
  <2>1. pos' \in Nat /\ made' \in Nat
    BY <1>12, Lengths DEF TypeOK, Footer
  <2> QED BY <1>12, <2>1 DEF TypeOK, Footer
<1>13. CASE UNCHANGED vars
  BY <1>13 DEF TypeOK, vars
<1> QED
  BY <1>1, <1>2, <1>3, <1>4, <1>5, <1>6, <1>7, <1>8, <1>9, <1>10, <1>11, <1>12, <1>13
     DEF Next, ResponseStep, FileStep, ListingStep, Terminated
-----------------------------------------------------------------------------
LEMMA ControlInit == Init => Control /\ Enumeration
BY DEF Init, Control, Enumeration, Streaming, InListing

LEMMA ControlStep == TypeOK /\ Control /\ Enumeration /\ [Next]_vars => Control' /\ Enumeration'
<1> SUFFICES ASSUME TypeOK, Control, Enumeration, [Next]_vars PROVE Control' /\ Enumeration'
  OBVIOUS
<1> USE DEF Control, Enumeration, Streaming, InListing
<1>1. CASE ServeInline
  BY <1>1 DEF ServeInline
<1>2. CASE Rewind
  BY <1>2 DEF Rewind
<1>3. ASSUME NEW dir \in Directories, NEW root \in BOOLEAN, ServeListing(dir, root)
      PROVE  Control' /\ Enumeration'
  <2>1. /\ at' = "head" /\ kind' = "dir" /\ phase' = "intro" /\ entry' = dir
        /\ UNCHANGED <<made, failed>>
    BY <1>3 DEF ServeListing
  <2>2. Control'
    BY <1>3, <2>1 DEF ServeListing
  <2>3. findOpen' = (dir # <<>>) /\ pending' = (dir # <<>>)
    BY <1>3 DEF ServeListing
  <2>4. pending' => fetched' > 0
    <3>1. fetched' = IF dir # <<>> THEN 1 ELSE 0
      BY <1>3 DEF ServeListing
    <3>2. pending' => fetched' = 1
      BY <2>3, <3>1, Zenon
    <3> QED BY <3>2
  <2> QED BY <2>1, <2>2, <2>3, <2>4
<1>4. ASSUME NEW n \in FileSizes, ServeFile(n) PROVE Control' /\ Enumeration'
  <2>1. CASE SizeLow(n) = SizeModulus - 1
    BY <1>4, <2>1 DEF ServeFile
  <2>2. CASE SizeLow(n) # SizeModulus - 1
    BY <1>4, <2>2 DEF ServeFile
  <2> QED BY <2>1, <2>2
<1>5. ASSUME NEW ok \in BOOLEAN, SendHead(ok) PROVE Control' /\ Enumeration'
  BY <1>5 DEF SendHead
<1>6. ASSUME NEW n \in 1 .. BufSize, ReadChunk(n) PROVE Control' /\ Enumeration'
  BY <1>6 DEF ReadChunk
<1>7. CASE ReadFails
  BY <1>7 DEF ReadFails
<1>8. CASE FileEnd
  BY <1>8 DEF FileEnd
<1>9. CASE ListingDone
  BY <1>9 DEF ListingDone
<1>10. CASE Intro
  BY <1>10 DEF Intro
<1>11. CASE Resume
  BY <1>11 DEF Resume
<1>12. CASE HaveEntry
  BY <1>12 DEF HaveEntry
<1>13. CASE FindNext
  BY <1>13 DEF FindNext, TypeOK
<1>14. CASE NoMoreEntries
  <2>1. Len(entry) = 0 <=> entry = <<>>
    BY EmptySeq DEF TypeOK
  <2>2. fetched = Len(entry)
    BY <1>14, <2>1 DEF NoMoreEntries, TypeOK
  <2> QED BY <1>14, <2>2 DEF NoMoreEntries
<1>15. CASE SkipDots
  BY <1>15 DEF SkipDots
<1>16. CASE EmitRow
  BY <1>16 DEF EmitRow, PendingAfterRow
<1>17. CASE CarryOver
  BY <1>17 DEF CarryOver, PendingCarriedOver
<1>18. CASE Footer
  BY <1>18 DEF Footer
<1>19. CASE SendChunk
  BY <1>19 DEF SendChunk
<1>20. CASE SendFails
  BY <1>20 DEF SendFails
<1>21. CASE BodyEnds
  BY <1>21 DEF BodyEnds
<1>22. CASE StreamClose
  BY <1>22 DEF StreamClose
<1>23. CASE UNCHANGED vars
  BY <1>23 DEF vars
<1> QED
  BY <1>1, <1>2, <1>3, <1>4, <1>5, <1>6, <1>7, <1>8, <1>9, <1>10, <1>11, <1>12, <1>13, <1>14,
     <1>15, <1>16, <1>17, <1>18, <1>19, <1>20, <1>21, <1>22, <1>23
     DEF Next, ResponseStep, FileStep, ListingStep, Terminated
-----------------------------------------------------------------------------
LEMMA AccountInit == Init => Room /\ Account /\ EmptyIsEnd
BY Lengths DEF Init, Room, Account, EmptyIsEnd, InListing

(* Room for the footer: it is reserved before a row is written.            *)
LEMMA RoomStep == TypeOK /\ Control /\ Enumeration /\ Room /\ Account /\ [Next]_vars
               => Room'
<1> SUFFICES ASSUME TypeOK, Control, Enumeration, Room, Account, [Next]_vars PROVE Room'
  OBVIOUS
<1> USE DEF Room, InListing
<1>1. CASE ServeInline
  BY <1>1 DEF ServeInline
<1>2. CASE Rewind
  BY <1>2 DEF Rewind
<1>3. ASSUME NEW dir \in Directories, NEW root \in BOOLEAN, ServeListing(dir, root)
      PROVE  Room'
  BY <1>3 DEF ServeListing
<1>4. ASSUME NEW n \in FileSizes, ServeFile(n)
      PROVE  Room'
  BY <1>4 DEF ServeFile
<1>5. ASSUME NEW ok \in BOOLEAN, SendHead(ok)
      PROVE  Room'
  BY <1>5 DEF SendHead
<1>6. ASSUME NEW n \in 1 .. BufSize, ReadChunk(n)
      PROVE  Room'
  <2>1. n <= BufSize
    BY <1>6, Lengths DEF ReadChunk, ToRead
  <2> QED BY <1>6, <2>1 DEF ReadChunk
<1>7. CASE ReadFails
  BY <1>7 DEF ReadFails
<1>8. CASE FileEnd
  BY <1>8 DEF FileEnd
<1>9. CASE ListingDone
  BY <1>9 DEF ListingDone
<1>10. CASE Intro
  <2>1. pos = 0
    BY <1>10 DEF Intro, Account
  <2>2. pos' <= IntroLen + ParentLen
    BY <1>10, <2>1, Lengths DEF Intro
  <2> QED BY <1>10, <2>2, Lengths, RoomAssumption DEF Intro, TypeOK
<1>11. CASE Resume
  <2>1. pos = 0
    BY <1>11 DEF Resume, Account
  <2> QED BY <1>11, <2>1, Lengths, RoomAssumption DEF Resume
<1>12. CASE HaveEntry
  BY <1>12 DEF HaveEntry
<1>13. CASE FindNext
  BY <1>13 DEF FindNext
<1>14. CASE NoMoreEntries
  BY <1>14 DEF NoMoreEntries
<1>15. CASE SkipDots
  BY <1>15 DEF SkipDots
<1>16. CASE EmitRow
  <2>1. entry[fetched] \in Nat /\ pos \in Nat
    BY <1>16, EntryAt DEF EmitRow, Control, TypeOK
  <2>2. pos' <= BufSize - TailReserve
    BY <1>16 DEF EmitRow, RowFits
  <2> QED BY <1>16, <2>1, <2>2, Lengths, RoomAssumption DEF EmitRow
<1>17. CASE CarryOver
  BY <1>17 DEF CarryOver
<1>18. CASE Footer
  BY <1>18, Lengths DEF Footer, TypeOK
<1>19. CASE SendChunk
  BY <1>19, Lengths DEF SendChunk
<1>20. CASE SendFails
  BY <1>20 DEF SendFails
<1>21. CASE BodyEnds
  BY <1>21 DEF BodyEnds
<1>22. CASE StreamClose
  BY <1>22 DEF StreamClose
<1>23. CASE UNCHANGED vars
  BY <1>23 DEF vars
<1> QED
  BY <1>1, <1>2, <1>3, <1>4, <1>5, <1>6, <1>7, <1>8, <1>9, <1>10, <1>11, <1>12, <1>13,
     <1>14, <1>15, <1>16, <1>17, <1>18, <1>19, <1>20, <1>21, <1>22, <1>23
     DEF Next, ResponseStep, FileStep, ListingStep, Terminated

(* The buffer is empty when the next chunk is asked for.                   *)
LEMMA AccountStep == TypeOK /\ Control /\ Enumeration /\ Account /\ [Next]_vars
               => Account'
<1> SUFFICES ASSUME TypeOK, Control, Enumeration, Account, [Next]_vars PROVE Account'
  OBVIOUS
<1> USE DEF Account
<1>1. CASE ServeInline
  BY <1>1 DEF ServeInline
<1>2. CASE Rewind
  BY <1>2 DEF Rewind
<1>3. ASSUME NEW dir \in Directories, NEW root \in BOOLEAN, ServeListing(dir, root)
      PROVE  Account'
  BY <1>3 DEF ServeListing, Control
<1>4. ASSUME NEW n \in FileSizes, ServeFile(n)
      PROVE  Account'
  BY <1>4 DEF ServeFile, Control
<1>5. ASSUME NEW ok \in BOOLEAN, SendHead(ok)
      PROVE  Account'
  BY <1>5 DEF SendHead
<1>6. ASSUME NEW n \in 1 .. BufSize, ReadChunk(n)
      PROVE  Account'
  BY <1>6 DEF ReadChunk, TypeOK
<1>7. CASE ReadFails
  BY <1>7 DEF ReadFails
<1>8. CASE FileEnd
  BY <1>8 DEF FileEnd
<1>9. CASE ListingDone
  BY <1>9 DEF ListingDone
<1>10. CASE Intro
  BY <1>10, Lengths DEF Intro, TypeOK
<1>11. CASE Resume
  BY <1>11 DEF Resume
<1>12. CASE HaveEntry
  BY <1>12 DEF HaveEntry
<1>13. CASE FindNext
  BY <1>13 DEF FindNext
<1>14. CASE NoMoreEntries
  BY <1>14 DEF NoMoreEntries
<1>15. CASE SkipDots
  BY <1>15 DEF SkipDots
<1>16. CASE EmitRow
  <2>1. entry[fetched] \in Nat /\ entry[fetched] > 0
    BY <1>16, EntryAt DEF EmitRow, Control
  <2> QED BY <1>16, <2>1 DEF EmitRow, TypeOK
<1>17. CASE CarryOver
  BY <1>17 DEF CarryOver
<1>18. CASE Footer
  BY <1>18, Lengths DEF Footer, TypeOK
<1>19. CASE SendChunk
  BY <1>19 DEF SendChunk, TypeOK
<1>20. CASE SendFails
  BY <1>20 DEF SendFails
<1>21. CASE BodyEnds
  BY <1>21 DEF BodyEnds
<1>22. CASE StreamClose
  BY <1>22 DEF StreamClose
<1>23. CASE UNCHANGED vars
  BY <1>23 DEF vars
<1> QED
  BY <1>1, <1>2, <1>3, <1>4, <1>5, <1>6, <1>7, <1>8, <1>9, <1>10, <1>11, <1>12, <1>13,
     <1>14, <1>15, <1>16, <1>17, <1>18, <1>19, <1>20, <1>21, <1>22, <1>23
     DEF Next, ResponseStep, FileStep, ListingStep, Terminated

(* The last chunk is followed by the end of the stream and nothing else.   *)
LEMMA EmptyStep == TypeOK /\ Control /\ Enumeration /\ Room /\ Account /\ EmptyIsEnd /\ LengthKept /\ Count /\ [Next]_vars
               => EmptyIsEnd'
<1> SUFFICES ASSUME TypeOK, Control, Enumeration, Room, Account, EmptyIsEnd, LengthKept, Count, [Next]_vars PROVE EmptyIsEnd'
  OBVIOUS
<1> USE DEF EmptyIsEnd
<1>1. CASE ServeInline
  BY <1>1 DEF ServeInline
<1>2. CASE Rewind
  BY <1>2 DEF Rewind
<1>3. ASSUME NEW dir \in Directories, NEW root \in BOOLEAN, ServeListing(dir, root)
      PROVE  EmptyIsEnd'
  BY <1>3 DEF ServeListing
<1>4. ASSUME NEW n \in FileSizes, ServeFile(n)
      PROVE  EmptyIsEnd'
  BY <1>4 DEF ServeFile
<1>5. ASSUME NEW ok \in BOOLEAN, SendHead(ok)
      PROVE  EmptyIsEnd'
  <2>1. sent = made /\ made = 0
    BY <1>5 DEF SendHead, Account, Control
  <2> QED BY <1>5, <2>1 DEF SendHead, Control
<1>6. ASSUME NEW n \in 1 .. BufSize, ReadChunk(n)
      PROVE  EmptyIsEnd'
  BY <1>6 DEF ReadChunk, TypeOK
<1>7. CASE ReadFails
  BY <1>7 DEF ReadFails
<1>8. CASE FileEnd
  BY <1>8 DEF FileEnd
<1>9. CASE ListingDone
  BY <1>9 DEF ListingDone
<1>10. CASE Intro
  BY <1>10 DEF Intro
<1>11. CASE Resume
  BY <1>11 DEF Resume
<1>12. CASE HaveEntry
  BY <1>12 DEF HaveEntry
<1>13. CASE FindNext
  BY <1>13 DEF FindNext
<1>14. CASE NoMoreEntries
  BY <1>14 DEF NoMoreEntries
<1>15. CASE SkipDots
  BY <1>15 DEF SkipDots
<1>16. CASE EmitRow
  BY <1>16 DEF EmitRow
<1>17. CASE CarryOver
  <2>1. entry[fetched] \in RowLens /\ entry[fetched] \in Nat
    BY <1>17, EntryAt DEF CarryOver, Control
  <2>2. entry[fetched] + TailReserve <= BufSize
    BY <2>1, RoomAssumption
  <2>3. pos # 0
    BY <1>17, <2>1, <2>2, Lengths DEF CarryOver, RowFits
  <2> QED BY <1>17, <2>3 DEF CarryOver
<1>18. CASE Footer
  BY <1>18, Lengths DEF Footer, TypeOK
<1>19. CASE SendChunk
  BY <1>19 DEF SendChunk, TypeOK
<1>20. CASE SendFails
  BY <1>20 DEF SendFails
<1>21. CASE BodyEnds
  <2>1. sent = made /\ kind # "none"
    BY <1>21 DEF BodyEnds, Account, Control, Streaming
  <2>2. ASSUME ~failed, kind = "dir" PROVE made = announced
    <3>1. phase = "done" /\ Emitted = fetched /\ fetched = Len(entry) /\ Len(entry) \in Nat
      BY <1>21, <2>2, LenProperties DEF BodyEnds, Emitted, Enumeration, TypeOK
    <3>2. made = Cardinality(Rows(entry, Len(entry))) + 1 + 1
      BY <2>2, <3>1 DEF Count, PiecesUpTo
    <3> QED BY <2>2, <3>1, <3>2, RowsFinite DEF Count
  <2>3. ASSUME ~failed, kind = "file" PROVE made = announced
    <3>1. remaining = 0 /\ made + remaining = announced
      BY <1>21, <2>3 DEF BodyEnds, LengthKept
    <3> QED BY <3>1 DEF TypeOK
  <2>4. ~failed => sent = announced
    BY <2>1, <2>2, <2>3 DEF TypeOK, Kinds
  <2> QED BY <1>21, <2>4 DEF BodyEnds
<1>22. CASE StreamClose
  BY <1>22 DEF StreamClose
<1>23. CASE UNCHANGED vars
  BY <1>23 DEF vars
<1> QED
  BY <1>1, <1>2, <1>3, <1>4, <1>5, <1>6, <1>7, <1>8, <1>9, <1>10, <1>11, <1>12, <1>13,
     <1>14, <1>15, <1>16, <1>17, <1>18, <1>19, <1>20, <1>21, <1>22, <1>23
     DEF Next, ResponseStep, FileStep, ListingStep, Terminated

-----------------------------------------------------------------------------
(* A step that leaves the listing alone.                                   *)
Listed == EachEntryOnce /\ PageSoFar /\ Count

LEMMA ListedStays ==
  ASSUME Listed, UNCHANGED <<entry, kind, phase, fetched, pending, page, made, announced>>
  PROVE  Listed'
<1>1. UNCHANGED Emitted
  BY DEF Emitted
<1>2. EachEntryOnce'
  BY <1>1 DEF Listed, EachEntryOnce
<1>3. PageSoFar'
  BY <1>1 DEF Listed, PageSoFar
<1>4. Count'
  BY <1>1 DEF Listed, Count, PiecesUpTo
<1> QED BY <1>2, <1>3, <1>4 DEF Listed

(* A step that takes the enumeration no further and emits nothing.         *)
LEMMA PageStays ==
  ASSUME EachEntryOnce, PageSoFar, UNCHANGED <<entry, kind, page>>, Emitted' = Emitted
  PROVE  EachEntryOnce' /\ PageSoFar'
<1>1. EachEntryOnce'
  BY DEF EachEntryOnce
<1>2. PageSoFar'
  BY DEF PageSoFar
<1> QED BY <1>1, <1>2

(* A step outside listings.                                                *)
LEMMA NoListing ==
  ASSUME TypeOK, EachEntryOnce, PageSoFar, kind' # "dir", UNCHANGED page,
         Emitted \in Int, Emitted' \in Int, Emitted <= Emitted'
  PROVE  Listed'
<1>1. EachEntryOnce'
  BY DEF EachEntryOnce
<1>2. \A i \in 1 .. Len(page) : page[i] \in Int
  <2>1. ASSUME NEW i \in 1 .. Len(page) PROVE page[i] \in 1 .. Len(entry)
    BY ElementOfSeq DEF TypeOK
  <2>2. Len(entry) \in Nat
    BY LenProperties DEF TypeOK
  <2> QED BY <2>1, <2>2
<1>3. PageSoFar'
  BY <1>2 DEF PageSoFar
<1>4. Count'
  BY DEF Count
<1> QED BY <1>1, <1>3, <1>4 DEF Listed

(* The row of the pending entry is emitted.                                *)
LEMMA EmitAdds ==
  ASSUME TypeOK, Control, Enumeration, Listed, EmitRow
  PROVE  Listed'
<1> DEFINE last == Len(page) + 1
<1>1. /\ pending /\ fetched \in 1 .. Len(entry) /\ Len(entry) \in Nat
      /\ entry[fetched] # Dots /\ phase = "entries"
  BY EntryAt, LenProperties DEF EmitRow, Control, TypeOK
<1>2. Emitted = fetched - 1 /\ Emitted' = fetched
  BY <1>1 DEF Emitted, EmitRow, PendingAfterRow
<1>3. /\ page' = Append(page, fetched) /\ UNCHANGED <<entry, kind, fetched, phase, announced>>
      /\ made' = made + 1
  BY DEF EmitRow
<1>4. /\ page \in Seq(1 .. Len(entry)) /\ Len(page) \in Nat /\ Len(page') = last
      /\ \A i \in 1 .. Len(page) : page'[i] = page[i] /\ page[i] \in 1 .. Len(entry)
      /\ page'[last] = fetched
  <2>1. page \in Seq(1 .. Len(entry)) /\ Len(page) \in Nat
    BY LenProperties DEF TypeOK
  <2>2. \A i \in 1 .. Len(page) : page[i] \in 1 .. Len(entry)
    BY <2>1, ElementOfSeq
  <2> QED BY <1>1, <1>3, <2>1, <2>2, AppendProperties
<1>5. \A i \in 1 .. Len(page) : page[i] \in Int /\ page[i] < fetched
  BY <1>1, <1>2, <1>4 DEF Listed, PageSoFar
<1>6. \A i \in 1 .. Len(page') : i \in 1 .. Len(page) \/ i = last
  BY <1>4
<1> HIDE DEF last
<1>7. \A i, j \in 1 .. Len(page') : i < j => page'[i] < page'[j]
  <2> SUFFICES ASSUME NEW i \in 1 .. Len(page'), NEW j \in 1 .. Len(page'), i < j
               PROVE  page'[i] < page'[j]
    OBVIOUS
  <2>1. i \in 1 .. Len(page)
    BY <1>4, <1>6 DEF last
  <2>2. CASE j = last
    BY <1>4, <1>5, <2>1, <2>2
  <2>3. CASE j \in 1 .. Len(page)
    BY <1>4, <2>1, <2>3 DEF Listed, EachEntryOnce
  <2> QED BY <1>6, <2>2, <2>3
<1>8. \A e \in 1 .. Emitted' : kind' = "dir" =>
          entry'[e] = Dots \/ \E i \in 1 .. Len(page') : page'[i] = e
  <2> SUFFICES ASSUME NEW e \in 1 .. Emitted', kind' = "dir", entry'[e] # Dots
               PROVE  \E i \in 1 .. Len(page') : page'[i] = e
    OBVIOUS
  <2>1. CASE e = fetched
    <3>1. last \in 1 .. Len(page')
      BY <1>4 DEF last
    <3> QED BY <1>4, <2>1, <3>1
  <2>2. CASE e # fetched
    <3>1. e \in 1 .. Emitted
      BY <1>1, <1>2, <2>2
    <3>2. PICK i \in 1 .. Len(page) : page[i] = e
      BY <1>3, <3>1 DEF Listed, EachEntryOnce
    <3>3. i \in 1 .. Len(page')
      BY <1>4 DEF last
    <3> QED BY <1>4, <3>2, <3>3
  <2> QED BY <2>1, <2>2
<1>9. PageSoFar'
  <2>1. ASSUME NEW i \in 1 .. Len(page') PROVE page'[i] <= fetched
    <3>1. CASE i = last
      BY <1>1, <1>4, <3>1
    <3>2. CASE i \in 1 .. Len(page)
      BY <1>1, <1>4, <1>5, <3>2
    <3> QED BY <1>6, <3>1, <3>2
  <2> QED BY <1>2, <2>1 DEF PageSoFar
<1>10. Count'
  <2>1. Cardinality(Rows(entry, fetched)) = Cardinality(Rows(entry, fetched - 1)) + 1
    BY <1>1, RowsNext
  <2>2. Cardinality(Rows(entry, fetched - 1)) \in Nat
    BY <1>1, RowsFinite
  <2>3. ASSUME kind = "dir" PROVE made' = Cardinality(Rows(entry, fetched)) + 1
    BY <1>1, <1>2, <1>3, <2>1, <2>2, <2>3 DEF Listed, Count, PiecesUpTo
  <2>4. Cardinality(Rows(entry, fetched)) \in Nat
    BY <1>1, RowsFinite
  <2> QED BY <1>1, <1>2, <1>3, <2>3, <2>4 DEF Listed, Count, PiecesUpTo
<1> QED BY <1>7, <1>8, <1>9, <1>10 DEF Listed, EachEntryOnce

(* An entry without a row is passed over.                                  *)
LEMMA SkipPasses ==
  ASSUME TypeOK, Control, Enumeration, Listed, SkipDots
  PROVE  Listed'
<1>1. /\ pending /\ fetched \in 1 .. Len(entry) /\ Len(entry) \in Nat /\ entry[fetched] = Dots
  BY EntryAt, LenProperties DEF SkipDots, Control, TypeOK
<1>2. Emitted = fetched - 1 /\ Emitted' = fetched
  BY <1>1 DEF Emitted, SkipDots
<1>3. UNCHANGED <<entry, kind, fetched, phase, page, made, announced>>
  BY DEF SkipDots
<1>4. EachEntryOnce'
  <2>1. \A e \in 1 .. Emitted' : e = fetched \/ e \in 1 .. Emitted
    BY <1>1, <1>2
  <2> QED BY <1>1, <1>3, <2>1 DEF Listed, EachEntryOnce
<1>5. PageSoFar'
  <2>1. ASSUME NEW i \in 1 .. Len(page) PROVE page[i] <= fetched
    <3>1. page[i] \in 1 .. Len(entry)
      BY ElementOfSeq DEF TypeOK
    <3> QED BY <1>1, <1>2, <3>1 DEF Listed, PageSoFar
  <2> QED BY <1>2, <1>3, <2>1 DEF PageSoFar
<1>6. Count'
  <2>1. Cardinality(Rows(entry, fetched)) = Cardinality(Rows(entry, fetched - 1))
    <3>1. Cardinality(Rows(entry, fetched - 1)) \in Nat
      BY <1>1, RowsFinite
    <3> QED BY <1>1, <3>1, RowsNext
  <2> QED BY <1>2, <1>3, <2>1 DEF Listed, Count, PiecesUpTo
<1> QED BY <1>4, <1>5, <1>6 DEF Listed

LEMMA ListedInit == Init => Listed
<1> SUFFICES ASSUME Init PROVE Listed OBVIOUS
<1>1. page = <<>> /\ kind = "none" /\ Len(page) = 0
  BY DEF Init
<1> QED BY <1>1 DEF Listed, EachEntryOnce, PageSoFar, Count

LEMMA ListedStep == TypeOK /\ Control /\ Enumeration /\ Listed /\ [Next]_vars => Listed'
<1> SUFFICES ASSUME TypeOK, Control, Enumeration, Listed, [Next]_vars PROVE Listed'
  OBVIOUS
<1>0. fetched \in Nat /\ pending \in BOOLEAN /\ Emitted \in Int /\ made \in Nat
  BY LenProperties DEF TypeOK, Emitted
<1>1. CASE ServeInline \/ Rewind \/ ReadFails \/ FileEnd \/ ListingDone \/ Resume
  BY <1>1, ListedStays DEF ServeInline, Rewind, ReadFails, FileEnd, ListingDone, Resume
<1>2. CASE HaveEntry \/ CarryOver \/ SendChunk \/ SendFails \/ BodyEnds \/ UNCHANGED vars
  BY <1>2, ListedStays DEF HaveEntry, CarryOver, PendingCarriedOver, SendChunk, SendFails, BodyEnds, vars
<1>3. ASSUME NEW ok \in BOOLEAN, SendHead(ok) PROVE Listed'
  BY <1>3, ListedStays DEF SendHead
<1>4. ASSUME NEW dir \in Directories, NEW root \in BOOLEAN, ServeListing(dir, root)
      PROVE  Listed'
  <2>1. page = <<>> /\ made = 0
    BY <1>4 DEF ServeListing, Control
  <2>2. /\ page' = <<>> /\ made' = 0 /\ phase' = "intro" /\ entry' = dir
        /\ announced' = 2 + Cardinality(Rows(dir, Len(dir)))
    BY <1>4, <2>1 DEF ServeListing
  <2>3. Emitted' = 0
    <3>1. CASE dir = <<>>
      BY <1>4, <3>1 DEF ServeListing, Emitted
    <3>2. CASE dir # <<>>
      <4>1. fetched' = 1 /\ pending'
        BY <1>4, <3>2 DEF ServeListing
      <4> QED BY <4>1 DEF Emitted
    <3> QED BY <3>1, <3>2
  <2>4. Len(page') = 0
    BY <2>2
  <2>5. EachEntryOnce' /\ PageSoFar'
    BY <2>3, <2>4 DEF EachEntryOnce, PageSoFar
  <2>6. Count'
    BY <2>2, <2>3, RowsNone DEF Count, PiecesUpTo
  <2> QED BY <2>5, <2>6 DEF Listed
<1>5. ASSUME NEW n \in FileSizes, ServeFile(n) PROVE Listed'
  <2>1. kind' # "dir" /\ UNCHANGED <<page, fetched, pending>>
    BY <1>5 DEF ServeFile, Control
  <2> QED BY <1>0, <2>1, NoListing DEF Listed, Emitted
<1>6. ASSUME NEW n \in 1 .. BufSize, ReadChunk(n) PROVE Listed'
  <2>1. kind' # "dir" /\ UNCHANGED <<page, fetched, pending>>
    BY <1>6 DEF ReadChunk
  <2> QED BY <1>0, <2>1, NoListing DEF Listed, Emitted
<1>7. CASE StreamClose
  <2>1. kind' # "dir" /\ UNCHANGED <<page, fetched>> /\ pending' = FALSE
    BY <1>7 DEF StreamClose
  <2> QED BY <1>0, <2>1, NoListing DEF Listed, Emitted
<1>8. CASE Intro
  <2>1. Emitted' = Emitted /\ UNCHANGED <<entry, kind, page, announced>>
    BY <1>8 DEF Intro, Emitted
  <2>2. /\ phase = "intro" /\ phase' = "entries" /\ made' = made + 1 /\ kind = "dir"
        /\ made = Cardinality(Rows(entry, Emitted)) + 0 + 0
    BY <1>8 DEF Intro, Listed, Count, PiecesUpTo
  <2>3. Cardinality(Rows(entry, Emitted)) \in Nat
    <3>1. Emitted \in Nat
      BY <1>0 DEF Enumeration, Emitted
    <3> QED BY <3>1, RowsFinite
  <2>4. made' = Cardinality(Rows(entry, Emitted)) + 1
    BY <2>2, <2>3
  <2>5. Count'
    <3>1. phase' # "intro" /\ phase' # "done"
      BY <2>2
    <3>2. Cardinality(Rows(entry, Emitted))' = Cardinality(Rows(entry, Emitted))
      BY <2>1
    <3>3. PiecesUpTo(Emitted)' = Cardinality(Rows(entry, Emitted)) + 1 + 0
      BY <3>1, <3>2 DEF PiecesUpTo
    <3> QED BY <2>1, <2>3, <2>4, <3>3 DEF Listed, Count
  <2> QED BY <2>1, <2>5, PageStays DEF Listed
<1>9. CASE FindNext
  <2>1. Emitted' = Emitted
    BY <1>0, <1>9 DEF FindNext, Emitted
  <2>2. UNCHANGED <<entry, kind, page, phase, made, announced>>
    BY <1>9 DEF FindNext
  <2>3. Count'
    BY <2>1, <2>2 DEF Listed, Count, PiecesUpTo
  <2> QED BY <2>1, <2>2, <2>3, PageStays DEF Listed
<1>10. CASE NoMoreEntries
  <2>1. Emitted' = Emitted /\ UNCHANGED <<entry, kind, page, made, announced>>
    BY <1>10 DEF NoMoreEntries, Emitted
  <2>2. phase = "entries" /\ phase' = "footer"
    BY <1>10 DEF NoMoreEntries, Control
  <2>3. Count'
    BY <2>1, <2>2 DEF Listed, Count, PiecesUpTo
  <2> QED BY <2>1, <2>3, PageStays DEF Listed
<1>11. CASE SkipDots
  BY <1>11, SkipPasses
<1>12. CASE EmitRow
  BY <1>12, EmitAdds
<1>13. CASE Footer
  <2>1. /\ Emitted' = Emitted /\ UNCHANGED <<entry, kind, page, announced>>
        /\ phase = "footer" /\ phase' = "done" /\ made' = made + 1 /\ kind = "dir"
    BY <1>13 DEF Footer, Emitted, Control, InListing
  <2>2. made = Cardinality(Rows(entry, Emitted)) + 1 + 0
    BY <2>1 DEF Listed, Count, PiecesUpTo
  <2>3. Emitted \in Nat
    BY <1>0, <1>13 DEF Emitted, Footer, Control, InListing, Enumeration
  <2>4. Count'
    BY <2>1, <2>2, <2>3, RowsFinite DEF Listed, Count, PiecesUpTo
  <2> QED BY <2>1, <2>4, PageStays DEF Listed
<1> QED
  BY <1>1, <1>2, <1>3, <1>4, <1>5, <1>6, <1>7, <1>8, <1>9, <1>10, <1>11, <1>12, <1>13
     DEF Next, ResponseStep, FileStep, ListingStep, Terminated
-----------------------------------------------------------------------------
(* What is read from a file and what is left of it.                        *)
LEMMA LengthStays ==
  ASSUME LengthKept, kind # "file" \/ at # "peeked", kind' = "file" => kind = "file",
         UNCHANGED <<made, remaining, announced, offset, size>>
  PROVE  LengthKept'
BY DEF LengthKept

LEMMA LengthStep == TypeOK /\ Control /\ LengthKept /\ [Next]_vars => LengthKept'
<1> SUFFICES ASSUME TypeOK, Control, LengthKept, [Next]_vars PROVE LengthKept'
  OBVIOUS
<1>1. CASE ServeInline \/ ReadFails \/ FileEnd \/ SendChunk \/ SendFails \/ BodyEnds \/ StreamClose
  BY <1>1, LengthStays
     DEF ServeInline, ReadFails, FileEnd, SendChunk, SendFails, BodyEnds, StreamClose, Control
<1>2. CASE Resume \/ HaveEntry \/ FindNext \/ NoMoreEntries \/ SkipDots \/ CarryOver \/ ListingDone
  BY <1>2, LengthStays
     DEF Resume, HaveEntry, FindNext, NoMoreEntries, SkipDots, CarryOver, ListingDone, Control
<1>3. CASE Intro \/ EmitRow \/ Footer
  BY <1>3 DEF Intro, EmitRow, Footer, LengthKept, Control, InListing
<1>4. ASSUME NEW ok \in BOOLEAN, SendHead(ok) PROVE LengthKept'
  BY <1>4, LengthStays DEF SendHead
<1>5. ASSUME NEW dir \in Directories, NEW root \in BOOLEAN, ServeListing(dir, root)
      PROVE  LengthKept'
  BY <1>5 DEF ServeListing, LengthKept
<1>6. ASSUME NEW n \in FileSizes, ServeFile(n) PROVE LengthKept'
  BY <1>6 DEF ServeFile, LengthKept, Control
<1>7. CASE Rewind
  BY <1>7 DEF Rewind, OffsetAfterPeek, LengthKept, Control, TypeOK
<1>8. ASSUME NEW n \in 1 .. BufSize, ReadChunk(n) PROVE LengthKept'
  <2>1. /\ made + remaining = announced /\ made = offset
        /\ n <= Available /\ n \in Int
    BY <1>8, Lengths DEF ReadChunk, LengthKept
  <2>2. offset + n <= size
    BY <2>1, <1>8 DEF Available, TypeOK
  <2> QED BY <1>8, <2>1, <2>2 DEF ReadChunk, RemainingAfter, LengthKept, TypeOK
<1>9. CASE UNCHANGED vars
  BY <1>9 DEF vars, LengthKept
<1> QED
  BY <1>1, <1>2, <1>3, <1>4, <1>5, <1>6, <1>7, <1>8, <1>9
     DEF Next, ResponseStep, FileStep, ListingStep, Terminated
-----------------------------------------------------------------------------
LEMMA Invariant == Spec => []IInv
<1>1. Init => IInv
  <2>1. Init => LengthKept
    BY DEF Init, LengthKept
  <2> QED BY <2>1, TypeInit, ControlInit, AccountInit, ListedInit DEF IInv, Listed
<1>2. IInv /\ [Next]_vars => IInv'
  BY TypeStep, ControlStep, RoomStep, AccountStep, EmptyStep, ListedStep, LengthStep DEF IInv, Listed
<1> QED BY <1>1, <1>2, PTL DEF Spec

(* Every variable keeps its type: the generator's position is one of the   *)
(* directory, and what is left of a file never underflows 32 bits.         *)
THEOREM TypeCorrect == Spec => []TypeOK
<1>1. IInv => TypeOK
  BY DEF IInv
<1> QED BY <1>1, Invariant, PTL

(* For every buffer that holds the opening and closing markup and a row,   *)
(* and every directory and file, no chunk is longer than the buffer.       *)
THEOREM ChunksFit == Spec => []ChunkFits
<1>1. IInv => ChunkFits
  BY DEF IInv, Room, ChunkFits
<1> QED BY <1>1, Invariant, PTL

(* However the rows fall into chunks, the page has each entry once and in  *)
(* order.                                                                  *)
THEOREM EntriesOnce == Spec => []EachEntryOnce
<1>1. IInv => EachEntryOnce
  BY DEF IInv
<1> QED BY <1>1, Invariant, PTL

(* However a file is read, what was read and what is left make up the      *)
(* Content-Length.                                                         *)
THEOREM LengthAnnounced == Spec => []LengthKept
<1>1. IInv => LengthKept
  BY DEF IInv
<1> QED BY <1>1, Invariant, PTL
-----------------------------------------------------------------------------
(* No more pieces are made than were announced.                            *)
LEMMA MadeBounded == ASSUME IInv, kind # "none", at \notin {"peeked"} PROVE made <= announced
<1>1. CASE kind = "file"
  <2>1. made + remaining = announced
    BY <1>1 DEF IInv, LengthKept
  <2>2. remaining >= 0 /\ remaining \in Int /\ made \in Nat
    BY Lengths DEF IInv, TypeOK
  <2> QED BY <2>1, <2>2
<1>2. CASE kind = "dir"
  <2> DEFINE all == Cardinality(Rows(entry, Len(entry)))
             sofar == Cardinality(Rows(entry, Emitted))
  <2>1. Emitted \in Nat /\ Len(entry) \in Nat /\ Emitted <= Len(entry)
    BY LenProperties DEF IInv, TypeOK, Enumeration, Emitted
  <2>2. sofar <= all /\ sofar \in Nat /\ all \in Nat
    BY <2>1, RowsBetween, RowsFinite
  <2>3. announced = 2 + all /\ made = PiecesUpTo(Emitted)
    BY <1>2 DEF IInv, Count
  <2> HIDE DEF all
  <2>4. PiecesUpTo(Emitted) <= sofar + 2
    <3> HIDE DEF sofar
    <3>1. PiecesUpTo(Emitted) = sofar + (IF phase = "intro" THEN 0 ELSE 1)
                                      + (IF phase = "done" THEN 1 ELSE 0)
      BY DEF PiecesUpTo, sofar
    <3> QED BY <2>2, <3>1
  <2> HIDE DEF sofar
  <2> QED BY <2>2, <2>3, <2>4 DEF PiecesUpTo
<1> QED BY <1>1, <1>2 DEF IInv, TypeOK, Kinds

Promised == <<announced, sent, Outcome>>

(* The answer is chosen: Delivery's Answer.                                *)
LEMMA ServeAnswers ==
  ASSUME IInv, TypeOK', at = "serve", at' \in {"head", "peeked"}, UNCHANGED sent
  PROVE  DL!Next
<1>1. Outcome = "asked" /\ Outcome' = "open"
  BY DEF Outcome
<1>2. announced' \in Nat
  BY DEF TypeOK
<1> QED BY <1>1, <1>2 DEF DL!Next, DL!Answer

(* A chunk reaches the client: Delivery's Receive.                         *)
LEMMA SendReceives == ASSUME IInv, SendChunk PROVE DL!Next
<1>1. Outcome = "open" /\ Outcome' = "open"
  BY DEF SendChunk, Outcome
<1>2. made <= announced
  BY MadeBounded DEF SendChunk, IInv, Control, Streaming
<1>3. sent < made /\ sent \in Nat /\ made \in Nat /\ announced \in Nat
  BY DEF SendChunk, IInv, Account, TypeOK
<1>4. sent' \in sent + 1 .. announced
  BY <1>2, <1>3 DEF SendChunk
<1> QED BY <1>1, <1>4 DEF SendChunk, DL!Next, DL!Transfer, DL!Receive

(* The connection is closed: Delivery's Finish or Break.                   *)
LEMMA CloseEnds == ASSUME IInv, StreamClose PROVE DL!Next
<1>1. Outcome = "open" /\ UNCHANGED <<announced, sent>>
  BY DEF StreamClose, Outcome
<1>2. CASE failed
  <2>1. Outcome' = "broken"
    BY <1>2 DEF StreamClose, Outcome
  <2> QED BY <1>1, <2>1 DEF DL!Next, DL!Transfer, DL!Break
<1>3. CASE ~failed
  <2>1. Outcome' = "complete"
    BY <1>3 DEF StreamClose, Outcome
  <2>2. sent = announced
    BY <1>3 DEF StreamClose, IInv, EmptyIsEnd
  <2> QED BY <1>1, <2>1, <2>2 DEF DL!Next, DL!Transfer, DL!Finish
<1> QED BY <1>2, <1>3

(* Every other step goes on between the answer and the end.                *)
LEMMA OthersStutter ==
  ASSUME at \notin {"serve", "closed"}, at' \notin {"serve", "closed"}, UNCHANGED <<announced, sent>>
  PROVE  UNCHANGED Promised
BY DEF Promised, Outcome

LEMMA StepDelivers == IInv /\ IInv' /\ [Next]_vars => [DL!Next]_Promised
<1> SUFFICES ASSUME IInv, IInv', [Next]_vars PROVE [DL!Next]_Promised
  OBVIOUS
<1>0. TypeOK'
  BY DEF IInv
<1>1. CASE ServeInline
  BY <1>0, <1>1, ServeAnswers DEF ServeInline
<1>2. ASSUME NEW dir \in Directories, NEW root \in BOOLEAN, ServeListing(dir, root)
      PROVE  DL!Next
  BY <1>0, <1>2, ServeAnswers DEF ServeListing
<1>3. ASSUME NEW n \in FileSizes, ServeFile(n) PROVE DL!Next
  BY <1>0, <1>3, ServeAnswers DEF ServeFile
<1>4. CASE Rewind
  BY <1>4, OthersStutter DEF Rewind
<1>5. ASSUME NEW ok \in BOOLEAN, SendHead(ok) PROVE UNCHANGED Promised
  BY <1>5, OthersStutter DEF SendHead
<1>6. ASSUME NEW n \in 1 .. BufSize, ReadChunk(n) PROVE UNCHANGED Promised
  BY <1>6, OthersStutter DEF ReadChunk
<1>7. CASE ReadFails \/ FileEnd \/ ListingDone \/ Intro \/ Resume \/ HaveEntry \/ FindNext
  BY <1>7, OthersStutter DEF ReadFails, FileEnd, ListingDone, Intro, Resume, HaveEntry, FindNext
<1>8. CASE NoMoreEntries \/ SkipDots \/ EmitRow \/ CarryOver \/ Footer
  BY <1>8, OthersStutter DEF NoMoreEntries, SkipDots, EmitRow, CarryOver, Footer
<1>9. CASE SendFails \/ BodyEnds
  BY <1>9, OthersStutter DEF SendFails, BodyEnds
<1>10. CASE SendChunk
  BY <1>10, SendReceives
<1>11. CASE StreamClose
  BY <1>11, CloseEnds
<1>12. CASE UNCHANGED vars
  BY <1>12 DEF vars, Promised, Outcome
<1> QED
  BY <1>1, <1>2, <1>3, <1>4, <1>5, <1>6, <1>7, <1>8, <1>9, <1>10, <1>11, <1>12
     DEF Next, ResponseStep, FileStep, ListingStep, Terminated

(* Each step of a response, for every buffer, directory and file, is one   *)
(* that Delivery allows: parts arrive in order, and the connection is      *)
(* closed with all of them received unless something failed.  This is      *)
(* ImplementsDelivery without its fairness.                                *)
DeliversInOrder == DL!Init /\ [][DL!Next]_Promised

THEOREM ResponseDelivers == Spec => DeliversInOrder
<1>1. Init => DL!Init
  BY DEF Init, DL!Init, Outcome
<1>2. IInv /\ IInv' /\ [Next]_vars => [DL!Next]_Promised
  BY StepDelivers
<1> QED BY <1>1, <1>2, Invariant, PTL DEF Spec, DeliversInOrder
-----------------------------------------------------------------------------
(* What is left of a body, and what a step may do to it.                   *)
Measured == /\ BodyLeft \in Nat /\ TurnsLeft \in Nat /\ BufferLeft \in {0, 4}
            /\ PartsLeft \in Int /\ Emitted \in Int

LEMMA LeftTyped == IInv => Measured
<1> SUFFICES ASSUME IInv PROVE Measured
  OBVIOUS
<1>1. PartsLeft \in 0 .. 3
  BY DEF IInv, TypeOK, Phases, PartsLeft
<1>2. TurnsLeft \in Nat
  BY DEF IInv, TypeOK, Places, TurnsLeft
<1>3. remaining \in Nat
  BY Lengths DEF IInv, TypeOK
<1>4. Emitted \in Int /\ Emitted <= Len(entry) /\ Len(entry) \in Nat
  BY LenProperties DEF IInv, TypeOK, Emitted
<1>5. BodyLeft \in Nat
  BY <1>1, <1>3, <1>4 DEF BodyLeft
<1> QED BY <1>1, <1>2, <1>4, <1>5 DEF BufferLeft, Measured

LEMMA LeftTypedNext == IInv' => Measured'
BY LeftTyped, PTL

(* Another turn of the loop with the same body to go, or some of the body  *)
(* is done with.                                                           *)
LEMMA Weighs ==
  ASSUME NEW b \in Nat, NEW c \in Nat, NEW t \in Nat, NEW u \in Nat, NEW x \in {0, 4}, NEW y \in {0, 4},
         (c = b /\ u + y < t + x) \/ (c < b /\ u <= t + 1)
  PROVE  10 * c + u + y \in 0 .. (10 * b + t + x) - 1
OBVIOUS

LEMMA Nearer ==
  ASSUME IInv, IInv',
         \/ BodyLeft' = BodyLeft /\ TurnsLeft' + BufferLeft' < TurnsLeft + BufferLeft
         \/ BodyLeft' < BodyLeft /\ TurnsLeft' <= TurnsLeft + 1
  PROVE  WorkLeft' \in 0 .. WorkLeft - 1
<1>1. BodyLeft \in Nat /\ TurnsLeft \in Nat /\ BufferLeft \in {0, 4}
  BY LeftTyped DEF Measured
<1>2. BodyLeft' \in Nat /\ TurnsLeft' \in Nat /\ BufferLeft' \in {0, 4}
  BY LeftTypedNext DEF Measured
<1>3. PICK b, c, t, u, x, y : /\ b = BodyLeft /\ t = TurnsLeft /\ x = BufferLeft
                              /\ c = BodyLeft' /\ u = TurnsLeft' /\ y = BufferLeft'
  OBVIOUS
<1>4. (c = b /\ u + y < t + x) \/ (c < b /\ u <= t + 1)
  BY <1>3
<1>5. 10 * c + u + y \in 0 .. (10 * b + t + x) - 1
  BY <1>1, <1>2, <1>3, <1>4, Weighs
<1>6. WorkLeft = 10 * b + t + x /\ WorkLeft' = 10 * c + u + y
  BY <1>3 DEF WorkLeft
<1> QED BY <1>5, <1>6

(* The control alone moves.                                                *)
LEMMA BodySame ==
  ASSUME UNCHANGED <<kind, remaining, phase, entry, Emitted>>
  PROVE  BodyLeft' = BodyLeft
BY DEF BodyLeft, PartsLeft

LEMMA ListingLess ==
  ASSUME IInv, IInv', kind = "dir", kind' = "dir", entry' = entry,
         PartsLeft' - Emitted' < PartsLeft - Emitted
  PROVE  BodyLeft' < BodyLeft
<1>1. /\ PartsLeft \in Int /\ PartsLeft' \in Int /\ Len(entry) \in Nat
      /\ Emitted \in Int /\ Emitted' \in Int
  BY LeftTyped, LeftTypedNext, LenProperties DEF IInv, TypeOK, Measured
<1>2. BodyLeft = PartsLeft + Len(entry) - Emitted /\ BodyLeft' = PartsLeft' + Len(entry) - Emitted'
  BY DEF BodyLeft
<1>3. PICK p, q, m, n, k : /\ p = PartsLeft /\ q = PartsLeft' /\ m = Emitted /\ n = Emitted'
                           /\ k = Len(entry)
  OBVIOUS
<1>4. p \in Int /\ q \in Int /\ m \in Int /\ n \in Int /\ k \in Int
  BY <1>1, <1>3
<1>5. q + k - n < p + k - m
  <2>1. q - n < p - m
    BY <1>3, Zenon
  <2> QED BY <1>4, <2>1
<1> QED BY <1>2, <1>3, <1>5

LEMMA StepAdvances ==
  ASSUME IInv, IInv', ResponseStep, at # "serve"
  PROVE  WorkLeft' \in 0 .. WorkLeft - 1
<1> USE DEF TurnsLeft, BufferLeft
<1>0. /\ pos \in Nat /\ fetched \in Nat /\ pending \in BOOLEAN
      /\ Emitted \in Int /\ Emitted' \in Int
  BY LeftTyped, LeftTypedNext, LenProperties DEF IInv, TypeOK, Measured
<1>1. CASE Rewind \/ ReadFails \/ FileEnd \/ ListingDone \/ Resume \/ HaveEntry \/ SendFails \/ BodyEnds
  <2>1. BodyLeft' = BodyLeft
    BY <1>1, BodySame
       DEF Rewind, ReadFails, FileEnd, ListingDone, Resume, HaveEntry, SendFails, BodyEnds, Emitted
  <2>2. BufferLeft' = BufferLeft
    BY <1>1 DEF Rewind, ReadFails, FileEnd, ListingDone, Resume, HaveEntry, SendFails, BodyEnds
  <2>3. TurnsLeft' < TurnsLeft
    BY <1>1 DEF Rewind, ReadFails, FileEnd, ListingDone, Resume, HaveEntry, SendFails, BodyEnds
  <2>4. TurnsLeft' + BufferLeft' < TurnsLeft + BufferLeft
    <3> HIDE DEF TurnsLeft, BufferLeft
    <3>1. PICK t, u, x : t = TurnsLeft /\ u = TurnsLeft' /\ x = BufferLeft
      OBVIOUS
    <3>2. t \in Nat /\ u \in Nat /\ x \in {0, 4} /\ u < t
      BY <2>3, <3>1, LeftTyped, LeftTypedNext DEF Measured
    <3>3. u + x < t + x
      BY <3>2
    <3> QED BY <2>2, <3>1, <3>3
  <2> QED BY <2>1, <2>4, Nearer
<1>2. ASSUME NEW ok \in BOOLEAN, SendHead(ok) PROVE WorkLeft' \in 0 .. WorkLeft - 1
  <2>1. BodyLeft' = BodyLeft
    BY <1>2, BodySame DEF SendHead, Emitted
  <2> QED BY <1>2, <2>1, Nearer DEF SendHead
<1>3. ASSUME NEW n \in 1 .. BufSize, ReadChunk(n) PROVE WorkLeft' \in 0 .. WorkLeft - 1
  <2>1. remaining \in Nat /\ n \in Nat \ {0}
    BY Lengths DEF IInv, TypeOK
  <2>2. BodyLeft = remaining /\ BodyLeft' = remaining - n
    BY <1>3 DEF ReadChunk, RemainingAfter, BodyLeft
  <2>3. TurnsLeft' <= TurnsLeft + 1
    BY <1>3 DEF ReadChunk
  <2> QED BY <2>1, <2>2, <2>3, Nearer
<1>4. CASE Intro \/ NoMoreEntries \/ Footer
  <2>1. /\ kind = "dir" /\ kind' = "dir" /\ entry' = entry /\ Emitted' = Emitted
        /\ TurnsLeft' <= TurnsLeft + 1
    BY <1>4 DEF Intro, NoMoreEntries, Footer, Emitted, IInv, Control, InListing
  <2>2. PartsLeft' < PartsLeft /\ PartsLeft \in Int /\ PartsLeft' \in Int
    BY <1>4 DEF Intro, NoMoreEntries, Footer, IInv, Control, PartsLeft
  <2>3. PartsLeft' - Emitted' < PartsLeft - Emitted
    <3>1. PICK p, q, m : p = PartsLeft /\ q = PartsLeft' /\ m = Emitted
      OBVIOUS
    <3>2. p \in Int /\ q \in Int /\ m \in Int /\ q < p
      BY <1>0, <2>2, <3>1
    <3>3. q - m < p - m
      BY <3>2
    <3> QED BY <2>1, <3>1, <3>3
  <2> QED BY <2>1, <2>3, ListingLess, Nearer
<1>5. CASE FindNext
  <2>1. BodyLeft' = BodyLeft
    <3>1. Emitted' = Emitted
      BY <1>0, <1>5 DEF FindNext, Emitted
    <3> QED BY <1>5, <3>1, BodySame DEF FindNext
  <2> QED BY <1>5, <2>1, Nearer DEF FindNext
<1>6. CASE SkipDots \/ EmitRow
  <2>1. /\ kind = "dir" /\ kind' = "dir" /\ UNCHANGED <<entry, PartsLeft>>
        /\ TurnsLeft' <= TurnsLeft + 1
    BY <1>6 DEF SkipDots, EmitRow, IInv, Control, InListing, PartsLeft
  <2>2. Emitted' = Emitted + 1
    BY <1>0, <1>6 DEF SkipDots, EmitRow, PendingAfterRow, Emitted, IInv, Control
  <2>3. PartsLeft \in Int
    BY LeftTyped DEF Measured
  <2> QED BY <1>0, <2>1, <2>2, <2>3, ListingLess, Nearer
<1>7. CASE CarryOver
  <2>1. BodyLeft' = BodyLeft
    BY <1>7, BodySame DEF CarryOver, PendingCarriedOver, Emitted
  <2> QED BY <1>7, <2>1, Nearer DEF CarryOver
<1>8. CASE SendChunk
  <2>1. BodyLeft' = BodyLeft
    BY <1>8, BodySame DEF SendChunk, Emitted
  <2> QED BY <1>0, <1>8, <2>1, Nearer DEF SendChunk
<1>9. CASE StreamClose
  <2>1. /\ at = "close" /\ at' = "closed" /\ UNCHANGED pos /\ kind' = "none"
    BY <1>9 DEF StreamClose
  <2>2. BodyLeft' = 0 /\ BodyLeft \in Nat
    BY <2>1, LeftTyped DEF BodyLeft, Measured
  <2> QED BY <2>1, <2>2, Nearer
<1>10. ~ServeInline /\ ~(\E dir \in Directories, root \in BOOLEAN : ServeListing(dir, root))
       /\ ~(\E n \in FileSizes : ServeFile(n))
  BY DEF ServeInline, ServeListing, ServeFile
<1> QED BY <1>1, <1>2, <1>3, <1>4, <1>5, <1>6, <1>7, <1>8, <1>9, <1>10
           DEF ResponseStep, FileStep, ListingStep

(* Every response comes to an end, whatever the buffer, the directory and  *)
(* the file: once it is chosen, no step of dir_stream_next, of             *)
(* stream_next_chunk or of the sending leaves as much to do as before.     *)
THEOREM ResponseAdvances == Spec => EachStepAdvances
<1>1. IInv /\ IInv' /\ [Next]_vars => [at # "serve" => WorkLeft' \in 0 .. WorkLeft - 1]_vars
  BY StepAdvances DEF Next, Terminated
<1> QED BY <1>1, Invariant, PTL DEF Spec, EachStepAdvances
=============================================================================
