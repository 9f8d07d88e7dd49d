----------------------------- MODULE ResponseStream -----------------------------
(***************************************************************************)
(* How a response body is produced and sent (server_win32.c): the head is  *)
(* sent, then stream_next_chunk is called for one buffer after another,    *)
(* from the file or from the directory generator dir_stream_next, until it *)
(* returns 0.  The blocking loop of process_client_request and the chain   *)
(* of send completions on Windows NT take the same steps.                  *)
(*                                                                         *)
(* Of a piece of HTML only its length matters, so that a directory is the  *)
(* sequence of the lengths of its rows.                                    *)
(***************************************************************************)
EXTENDS Integers, Sequences, FiniteSets

CONSTANTS BufSize,       \* HTTP_SEND_BUFFER_SIZE
          TailReserve,   \* tail_reserve
          IntroLen,      \* the opening markup,
          ParentLen,     \* the link to the parent directory
          FooterLen,     \* and the closing markup
          RowLens,       \* the lengths of rows
          MaxEntries,    \* bound on the entries of a directory
          FileSizes,     \* sizes of files
          SizeModulus    \* sizes are kept modulo 2^32

Dots == 0                \* in place of a row's length: the entries "." and ".."

ASSUME StreamAssumption ==
    /\ \A n \in {BufSize, TailReserve, IntroLen, ParentLen, FooterLen} : n \in Nat \ {0}
    /\ RowLens \subseteq Nat \ {0} /\ FileSizes \subseteq Nat
    /\ MaxEntries \in Nat /\ SizeModulus \in Nat \ {0}

(* What the comments of dir_stream_next count on: the opening markup fits, *)
(* the footer fits the reserve, and a row fits an empty buffer.            *)
ASSUME RoomAssumption ==
    /\ FooterLen <= TailReserve
    /\ IntroLen + ParentLen + FooterLen <= BufSize
    /\ \A n \in RowLens : n + TailReserve <= BufSize

VARIABLES
    entry,      \* the directory: the length of each entry's row
    atRoot,     \* dir_url is "/"
    size,       \* of the file
    kind,       \* ctx->stream_kind
    findOpen,   \* ctx->dir_find is open
    phase,      \* ctx->dir_phase
    fetched,    \* how many entries the enumeration has returned
    pending,    \* ctx->dir_has_pending: the last of them is still to be emitted
    remaining,  \* ctx->stream_remaining
    offset,     \* file pointer of ctx->stream_file
    at,         \* control state of the thread that sends
    pos,        \* bytes in the buffer
    made,       \* ghost: pieces or bytes put into buffers so far,
    sent,       \*    and how many of them have been sent
    page,       \* ghost: the entries whose rows were emitted, in order
    announced,  \* ghost: Content-Length, or the pieces of the whole page
    failed      \* ghost: a read or a send failed

given   == <<entry, atRoot, size>>
dirVars == <<findOpen, phase, fetched, pending, page>>
filVars == <<remaining, offset>>
vars == <<given, kind, dirVars, filVars, at, pos, made, sent, announced, failed>>

Kinds  == {"none", "file", "dir"}
Phases == {"intro", "entries", "footer", "done"}
Places == {"serve", "peeked", "head", "call", "rows", "row", "footer", "send", "close", "closed"}

TypeOK ==
    /\ entry \in Seq(RowLens \cup {Dots}) /\ atRoot \in BOOLEAN /\ size \in Nat
    /\ kind \in Kinds /\ findOpen \in BOOLEAN /\ phase \in Phases
    /\ fetched \in 0 .. Len(entry) /\ pending \in BOOLEAN
    /\ remaining \in 0 .. SizeModulus - 1 /\ offset \in Nat
    /\ at \in Places /\ pos \in Nat
    /\ made \in Nat /\ sent \in Nat /\ announced \in Nat
    /\ page \in Seq(1 .. Len(entry))
    /\ failed \in BOOLEAN

Directories == UNION {[1 .. n -> RowLens \cup {Dots}] : n \in 0 .. MaxEntries}

Init ==
    /\ entry = <<>> /\ atRoot = TRUE /\ size = 0
    /\ kind = "none" /\ findOpen = FALSE /\ phase = "intro" /\ fetched = 0 /\ pending = FALSE
    /\ remaining = 0 /\ offset = 0
    /\ at = "serve" /\ pos = 0 /\ made = 0 /\ sent = 0 /\ page = <<>> /\ announced = 0
    /\ failed = FALSE
-----------------------------------------------------------------------------
(* serve_http_request: an answer without a body to stream, a listing, or a *)
(* file.                                                                   *)

ServeInline ==
    /\ at = "serve" /\ at' = "head"
    /\ UNCHANGED <<given, kind, dirVars, filVars, pos, made, sent, announced, failed>>

(* FindFirstFile yields the first entry.                                   *)
Rows(dir, n) == {e \in 1 .. n : dir[e] # Dots}

ServeListing(dir, root) ==
    /\ at = "serve"
    /\ entry' = dir /\ atRoot' = root
    /\ kind' = "dir" /\ phase' = "intro"
    /\ findOpen' = (dir # <<>>) /\ pending' = (dir # <<>>)
    /\ fetched' = IF dir # <<>> THEN 1 ELSE 0
    /\ announced' = 2 + Cardinality(Rows(dir, Len(dir)))
    /\ at' = "head"
    /\ UNCHANGED <<size, page, filVars, pos, made, sent, failed>>

(* GetFileSize gives the low half of the size, and cannot tell 2^32 - 1    *)
(* from an error.  Some bytes are read for detect_mime_type.               *)
SizeLow(n) == n % SizeModulus

ServeFile(n) ==
    /\ at = "serve"
    /\ size' = n
    /\ IF SizeLow(n) = SizeModulus - 1
         THEN at' = "head" /\ UNCHANGED <<kind, filVars, announced>>
         ELSE /\ kind' = "file"
              /\ remaining' = SizeLow(n) /\ announced' = SizeLow(n)
              /\ offset' \in 0 .. n
              /\ at' = "peeked"
    /\ UNCHANGED <<entry, atRoot, dirVars, pos, made, sent, failed>>

OffsetAfterPeekKept == offset
OffsetAfterPeek == 0

Rewind ==
    /\ at = "peeked" /\ at' = "head"
    /\ offset' = OffsetAfterPeek
    /\ UNCHANGED <<given, kind, dirVars, remaining, pos, made, sent, announced, failed>>

SendHead(ok) ==
    /\ at = "head"
    /\ at' = IF ok /\ kind # "none" THEN "call" ELSE "close"
    /\ failed' = ~ok
    /\ UNCHANGED <<given, kind, dirVars, filVars, pos, made, sent, announced>>
-----------------------------------------------------------------------------
(* stream_next_chunk, for a file *)

ToReadUncapped == BufSize
ToRead == IF BufSize > remaining THEN remaining ELSE BufSize
Available == IF offset < size THEN size - offset ELSE 0

RemainingAfter(n) == remaining - n

ReadChunk(n) ==
    /\ at = "call" /\ kind = "file" /\ remaining # 0
    /\ n \in 1 .. ToRead /\ n <= Available
    /\ remaining' = RemainingAfter(n)
    /\ offset' = offset + n
    /\ pos' = n /\ made' = made + n
    /\ at' = "send"
    /\ UNCHANGED <<given, kind, dirVars, sent, announced, failed>>

ReadFails ==
    /\ at = "call" /\ kind = "file" /\ remaining # 0
    /\ failed' = TRUE
    /\ at' = "send"
    /\ UNCHANGED <<given, kind, dirVars, filVars, pos, made, sent, announced>>

FileEnd ==
    /\ at = "call" /\ kind = "file" /\ remaining = 0
    /\ at' = "send"
    /\ UNCHANGED <<given, kind, dirVars, filVars, pos, made, sent, announced, failed>>
-----------------------------------------------------------------------------
(* dir_stream_next *)

ListingDone ==
    /\ at = "call" /\ kind = "dir" /\ phase = "done"
    /\ at' = "send"
    /\ UNCHANGED <<given, kind, dirVars, filVars, pos, made, sent, announced, failed>>

Intro ==
    /\ at = "call" /\ kind = "dir" /\ phase = "intro"
    /\ pos' = pos + IntroLen + (IF atRoot THEN 0 ELSE ParentLen)
    /\ made' = made + 1
    /\ phase' = "entries"
    /\ at' = "rows"
    /\ UNCHANGED <<given, kind, findOpen, fetched, pending, page, filVars, sent, announced, failed>>

Resume ==
    /\ at = "call" /\ kind = "dir" /\ phase = "entries"
    /\ at' = "rows"
    /\ UNCHANGED <<given, kind, dirVars, filVars, pos, made, sent, announced, failed>>

(* The entry carried over from the last call, or the next of the           *)
(* enumeration; when there is none the footer follows.                     *)
HaveEntry ==
    /\ at = "rows" /\ pending
    /\ at' = "row"
    /\ UNCHANGED <<given, kind, dirVars, filVars, pos, made, sent, announced, failed>>

FindNext ==
    /\ at = "rows" /\ ~pending /\ findOpen /\ fetched < Len(entry)
    /\ fetched' = fetched + 1 /\ pending' = TRUE
    /\ at' = "row"
    /\ UNCHANGED <<given, kind, findOpen, phase, page, filVars, pos, made, sent, announced, failed>>

NoMoreEntries ==
    /\ at = "rows" /\ ~pending /\ (~findOpen \/ fetched = Len(entry))
    /\ phase' = "footer"
    /\ at' = "footer"
    /\ UNCHANGED <<given, kind, findOpen, fetched, pending, page, filVars, pos, made, sent,
                   announced, failed>>

SkipDots ==
    /\ at = "row" /\ entry[fetched] = Dots
    /\ pending' = FALSE
    /\ at' = "rows"
    /\ UNCHANGED <<given, kind, findOpen, phase, fetched, page, filVars, pos, made, sent,
                   announced, failed>>

RowFitsBuffer == pos + entry[fetched] <= BufSize
RowFits == pos + entry[fetched] <= BufSize - TailReserve

PendingAfterRowKept == TRUE
PendingAfterRow == FALSE

EmitRow ==
    /\ at = "row" /\ entry[fetched] # Dots /\ RowFits
    /\ pos' = pos + entry[fetched]
    /\ made' = made + 1
    /\ page' = Append(page, fetched)
    /\ pending' = PendingAfterRow
    /\ at' = "rows"
    /\ UNCHANGED <<given, kind, findOpen, phase, fetched, filVars, sent, announced, failed>>

PendingCarriedOverLost == FALSE
PendingCarriedOver == pending

CarryOver ==
    /\ at = "row" /\ entry[fetched] # Dots /\ ~RowFits
    /\ pending' = PendingCarriedOver
    /\ at' = "send"
    /\ UNCHANGED <<given, kind, findOpen, phase, fetched, page, filVars, pos, made, sent,
                   announced, failed>>

Footer ==
    /\ at = "footer"
    /\ pos' = pos + FooterLen
    /\ made' = made + 1
    /\ phase' = "done"
    /\ at' = "send"
    /\ UNCHANGED <<given, kind, findOpen, fetched, pending, page, filVars, sent, announced, failed>>
-----------------------------------------------------------------------------
(* The chunk is sent, by send_all or post_send, and the next one is asked  *)
(* for; an empty chunk ends the response.                                  *)
SendChunk ==
    /\ at = "send" /\ pos > 0
    /\ sent' = made /\ pos' = 0
    /\ at' = "call"
    /\ UNCHANGED <<given, kind, dirVars, filVars, made, announced, failed>>

SendFails ==
    /\ at = "send" /\ pos > 0
    /\ failed' = TRUE
    /\ at' = "close"
    /\ UNCHANGED <<given, kind, dirVars, filVars, pos, made, sent, announced>>

BodyEnds ==
    /\ at = "send" /\ pos = 0
    /\ at' = "close"
    /\ UNCHANGED <<given, kind, dirVars, filVars, pos, made, sent, announced, failed>>

(* stream_close, and the connection with it *)
StreamClose ==
    /\ at = "close"
    /\ kind' = "none" /\ findOpen' = FALSE /\ pending' = FALSE
    /\ at' = "closed"
    /\ UNCHANGED <<given, phase, fetched, page, filVars, pos, made, sent, announced, failed>>
-----------------------------------------------------------------------------
FileStep == (\E n \in 1 .. BufSize : ReadChunk(n)) \/ ReadFails \/ FileEnd

ListingStep == \/ ListingDone \/ Intro \/ Resume \/ HaveEntry \/ FindNext \/ NoMoreEntries
               \/ SkipDots \/ EmitRow \/ CarryOver \/ Footer

ResponseStep == \/ ServeInline \/ Rewind
                \/ \E dir \in Directories, root \in BOOLEAN : ServeListing(dir, root)
                \/ \E n \in FileSizes : ServeFile(n)
                \/ \E ok \in BOOLEAN : SendHead(ok)
                \/ FileStep \/ ListingStep
                \/ SendChunk \/ SendFails \/ BodyEnds \/ StreamClose

Terminated == at = "closed" /\ UNCHANGED vars

Next == ResponseStep \/ Terminated

Spec == Init /\ [][Next]_vars
FairSpec == Spec /\ WF_vars(ResponseStep)
-----------------------------------------------------------------------------
(* Nothing is written past the end of the buffer: the opening markup, the  *)
(* rows and, in the same chunk, the footer.                                *)
ChunkFits == pos <= BufSize

(* The page has every entry the enumeration returned, but "." and "..",    *)
(* once and in order, although the entry that did not fit one buffer is    *)
(* carried over to the next.                                               *)
Emitted == IF pending THEN fetched - 1 ELSE fetched

EachEntryOnce ==
    /\ \A i, j \in 1 .. Len(page) : i < j => page[i] < page[j]
    /\ kind = "dir" => \A e \in 1 .. Emitted :
                          entry[e] = Dots \/ \E i \in 1 .. Len(page) : page[i] = e

(* What was read from a file and what is left make up the Content-Length,  *)
(* and the bytes read are the first of the file.                           *)
LengthKept == kind = "file" /\ at # "peeked" => /\ made + remaining = announced
                                                /\ made = offset /\ offset <= size

(* A response comes to an end: each step uses up something of the body (a  *)
(* byte of the file, an entry, a part of the page) or comes nearer to one  *)
(* that does.  A row that was carried over fits the next buffer, so that   *)
(* no two buffers in a row bring nothing.                                  *)
PartsLeft == [intro |-> 3, entries |-> 2, footer |-> 1, done |-> 0][phase]
BodyLeft == CASE kind = "file" -> remaining
              [] kind = "dir"  -> PartsLeft + Len(entry) - Emitted
              [] OTHER         -> 0
TurnsLeft == [serve |-> 8, peeked |-> 7, head |-> 6, call |-> 5, rows |-> 4, row |-> 3,
              footer |-> 3, send |-> 2, close |-> 1, closed |-> 0][at]
BufferLeft == IF pos = 0 THEN 0 ELSE 4
WorkLeft == 10 * BodyLeft + TurnsLeft + BufferLeft

EachStepAdvances == [][at # "serve" => WorkLeft' \in 0 .. WorkLeft - 1]_vars

(* Body parts arrive in order, and all of them before the connection is    *)
(* closed, unless something failed; either happens in the end.             *)
Outcome == CASE at = "serve"  -> "asked"
             [] at = "closed" -> IF failed THEN "broken" ELSE "complete"
             [] OTHER         -> "open"
DL == INSTANCE Delivery WITH total <- announced, received <- sent, outcome <- Outcome
ImplementsDelivery == DL!Spec
=============================================================================
