--------------------------------- MODULE Browse ---------------------------------
(***************************************************************************)
(* A client and the server (server_win32.c): URLs are typed, or come from  *)
(* redirects and from the links of directory listings; a request arrives   *)
(* in pieces, is parsed, and serve_http_request chooses the answer from    *)
(* what is below the document root.                                        *)
(***************************************************************************)
EXTENDS HttpText, FiniteSets

CONSTANTS RecvSize,   \* size of recv_buffer
          Pieces,     \* sizes of the pieces in which a request arrives
          Trees,      \* file trees: functions from paths below the root to kinds
          Mistyped    \* URLs that name nothing in particular

Kinds == {"dir", "file", "locked"}       \* a locked file exists and cannot be opened

ASSUME TreeAssumption ==
    \A t \in Trees : /\ <<>> \in DOMAIN t /\ t[<<>>] = "dir"
                     /\ \A n \in DOMAIN t :
                           /\ n \in Seq(Seq(NameChars)) /\ \A i \in 1 .. Len(n) : ValidName(n[i])
                           /\ t[n] \in Kinds
                           /\ n # <<>> => Front(n) \in DOMAIN t /\ t[Front(n)] = "dir"

(* What may be in the URL of a request: not what ends it.                  *)
UrlChars == Nat \ {SP, CR, LF}

ASSUME RequestAssumption == /\ RecvSize \in Nat \ {0} /\ Pieces \subseteq Nat
                            /\ Mistyped \subseteq Seq(UrlChars)

VARIABLES
    platform,   \* "win9x" or "nt"
    tree,       \* what is below the document root
    asked,      \* the request: method, url, header lines and body
    how,        \* ghost: "typed", "link", "redirect" or "other"
    want,       \* ghost: what the client means to reach, if anything
    gone,       \* the client closed its side
    got,        \* bytes of the request received
    server,     \* control state of the thread that serves the connection
    parsed,     \* req
    page        \* what the client received last

given == <<platform, tree>>
asking == <<asked, how, want>>
vars == <<given, asking, gone, got, server, parsed, page>>

NoPage      == [kind |-> "none"]
Error(code) == [kind |-> "error", status |-> code]
File(n)     == [kind |-> "file", node |-> n]
Listing(n)  == [kind |-> "listing", node |-> n]
Redirect(n) == [kind |-> "redirect", node |-> n]
Nowhere     == [kind |-> "overrun"]      \* a buffer is overrun: no answer at all
Unsaid      == [kind |-> "unsaid"]       \* what Win32 makes of a device or a stream

Request(r) == r.method \o <<SP>> \o r.url \o <<SP, 72, CR, LF>> \o r.lines \o <<CR, LF>> \o r.body
Beginning(n) == SubSeq(Request(asked), 1, n)
Received == Beginning(got)

TypeOK ==
    /\ platform \in {"win9x", "nt"} /\ tree \in Trees
    /\ how \in {"typed", "link", "redirect", "other"}
    /\ Cardinality(want) <= 1
    /\ gone \in BOOLEAN
    /\ got \in 0 .. RecvSize - 1
    /\ server \in {"recv", "parse", "serve", "done", "undefined"}
    /\ \A f \in DOMAIN parsed : parsed[f] \in 0 .. RecvSize
    /\ page.kind \in {"none", "error", "file", "listing", "redirect", "overrun", "unsaid"}
-----------------------------------------------------------------------------
(* Windows paths: / and \ separate, "." and empty components are dropped.   *)
(* That trailing dots and spaces are, too, is left out.                    *)

Separators == {Slash, Backslash}

Outside == << <<Dot, Dot>> >>
Up(node) == IF node \in {<<>>, Outside} THEN Outside ELSE Front(node)

Into(node, name) == IF name = <<Dot, Dot>> THEN Up(node)
                    ELSE IF name \in {<<>>, <<Dot>>} THEN node
                    ELSE Append(node, name)

(* The component that ends before position k, and where the components     *)
(* that end up to there lead.                                              *)
NameFrom(path, k) == SelectLastInSubSeq(path, 1, k - 1, LAMBDA c : c \in Separators) + 1
NameBefore(path, k) == SubSeq(path, NameFrom(path, k), k - 1)

Ends(path, k) == k = Len(path) + 1 \/ path[k] \in Separators

Steps(path) ==
    LET node[k \in 0 .. Len(path) + 1] ==
          IF k = 0 THEN <<>>
          ELSE IF Ends(path, k) THEN Into(node[k - 1], NameBefore(path, k))
          ELSE node[k - 1]
    IN  node

Walk(path) == Steps(path)[Len(path) + 1]

(* Names that Win32 does not look for in the directory: devices, and the   *)
(* streams of a file, which a colon begins.                                *)
Special(node) == \E i \in 1 .. Len(node) : node[i] \in Devices \/ Colon \in Range(node[i])

(* GetFileAttributes; the name of a file does not end with a separator.    *)
EndsOpen(path) == Last(path) \in Separators
Exists(path) == \/ Walk(path) = Outside
                \/ /\ Walk(path) \in DOMAIN tree
                   /\ EndsOpen(path) => tree[Walk(path)] = "dir"
IsDir(path) == Walk(path) = Outside \/ tree[Walk(path)] = "dir"

(* CreateFile                                                              *)
Opened(node) == IF tree[node] = "file" THEN File(node) ELSE Error(500)
-----------------------------------------------------------------------------
(* serve_http_request.  Whether index.html exists is looked up under a     *)
(* path that is put together without a check of its length, and the path   *)
(* of the URL itself is put together before its length is checked.         *)

IndexPathFits(path) == RootLen + 1 + Len(path) + 1 + Len(Index) < MaxPath

AnswerDirectory(url, path) ==
    LET node == Walk(path) IN
    CASE Last(url) # Slash                        -> Redirect(node)
      [] Last(url) = Slash /\ ~IndexPathFits(path) -> Nowhere
      [] OTHER -> IF Append(node, Index) \in DOMAIN tree THEN Opened(Append(node, Index))
                                                         ELSE Listing(node)

AnswerPath(url) ==
    LET path == Resolve(url) IN
    IF path = Refused THEN Error(403)
    ELSE IF path = Overrun THEN Nowhere
    ELSE IF Special(Walk(path)) THEN Unsaid
    ELSE IF ~Exists(path) THEN Error(404)
    ELSE IF IsDir(path) THEN AnswerDirectory(url, path)
    ELSE Opened(Walk(path))

Answer(method, url) ==
    IF method # GET THEN Error(405)
    ELSE IF Len(url) \notin 1 .. MaxPath - 1 THEN Error(400)
    ELSE AnswerPath(url)
-----------------------------------------------------------------------------
(* The client opens a connection and asks for a URL.  Browsers encode what *)
(* a user typed; in a link they leave the escapes and encode only spaces,  *)
(* and what follows # is not sent.                                         *)

HexDigit(n) == IF n < 10 THEN 48 + n ELSE 55 + n
Escaped(c) == <<Percent, HexDigit(c \div 16), HexDigit(c % 16)>>
Unreserved == Digits \cup (65 .. 90) \cup (97 .. 122) \cup {Dot}

EncodeName(name) == FlattenSeq([i \in 1 .. Len(name) |->
                        IF name[i] \in Unreserved THEN <<name[i]>> ELSE Escaped(name[i])])
EncodePath(node) == FlattenSeq([i \in 1 .. Len(node) |-> <<Slash>> \o EncodeName(node[i])])

Hash == 35
LinkText(href) == FlattenSeq([i \in 1 .. SelectInSeq(Append(href, Hash), LAMBDA c : c = Hash) - 1 |->
                        IF href[i] = SP THEN Escaped(SP) ELSE <<href[i]>>])

Ask(r, why, sought) ==
    /\ server = "done"
    /\ asked' = r /\ how' = why /\ want' = sought
    /\ gone' = FALSE /\ got' = 0 /\ parsed' = Parse(<<>>) /\ page' = NoPage
    /\ server' = "recv"
    /\ UNCHANGED given

HeaderLine == <<104, CR, LF>>
Get(url) == [method |-> MethodNames[GET], url |-> url, lines |-> HeaderLine, body |-> <<>>]

Type(node, slash) ==
    /\ node = <<>> => slash
    /\ Ask(Get(EncodePath(node) \o (IF slash THEN <<Slash>> ELSE <<>>)), "typed", {node})

Mistype(url) == Ask(Get(url), "other", {})

(* What a click or a redirect means is known if the URL it starts from is  *)
(* a directory's, that is, ends in a slash that no escape takes in (%4/),  *)
(* and no escaped 0 cuts it short.                                         *)
Apart(text) == \A i \in {Len(text) - 1, Len(text)} \cap DOMAIN text : text[i] # Percent
EndsApart(url) == /\ url # <<>> /\ Head(url) = Slash
                  /\ Last(url) = Slash /\ Apart(Front(url))
                  /\ 0 \notin Range(UrlDecode(url))
Meant(known, node) == IF known THEN {node} ELSE {}

(* build_http_redirect_response: Location is the URL and a slash.          *)
Location(url) == Append(url, Slash)

FollowRedirect == /\ page.kind = "redirect"
                  /\ Ask(Get(Location(asked.url)), "redirect",
                         Meant(EndsApart(Location(asked.url)), page.node))

(* The links of dir_stream_next: a name, with a slash after a directory's, *)
(* and ../ unless the URL is /.  A listing at / is that of a directory     *)
(* called index.html, whose entries have other URLs.  ../ takes off what   *)
(* is between the last two slashes, which should be a name.                *)
HrefBare(node) == Last(node)
Href(node) == Last(node) \o (IF tree[node] = "dir" THEN <<Slash>> ELSE <<>>)

DirectoryOf(url) == SubSeq(url, 1, SelectLastInSeq(url, LAMBDA c : c = Slash))

ClickEntry(node) ==
    /\ page.kind = "listing" /\ node # <<>> /\ Front(node) = page.node
    /\ Ask(Get(DirectoryOf(asked.url) \o LinkText(Href(node))), "link",
           Meant(EndsApart(asked.url) /\ asked.url # <<Slash>>, node))

ParentOf(url) == DirectoryOf(Front(url))
NameIn(url)   == UrlDecode(SubSeq(url, Len(ParentOf(url)) + 1, Len(url) - 1))
TakesOff(url, node) ==
    /\ EndsApart(url) /\ EndsApart(ParentOf(url))
    /\ Range(NameIn(url)) \cap Separators = {}
    /\ node # <<>> => NameIn(url) \notin {<<>>, <<Dot>>}

ClickParent ==
    /\ page.kind = "listing" /\ asked.url # <<Slash>>
    /\ Ask(Get(ParentOf(asked.url)), "link",
           Meant(TakesOff(asked.url, page.node),
                 IF page.node = <<>> THEN <<>> ELSE Front(page.node)))

(* Other clients: other methods, lower case, no header lines, a body.      *)
Methods == {<<103, 101, 116>>, <<71>>, <<80, 79, 83, 84>>, <<80, 85, 84>>, <<72, 69, 65, 68>>}
Bodies == {<<>>, <<98>>}

AskOtherwise(method, lines, body) ==
    Ask([method |-> method, url |-> <<Slash>>, lines |-> lines, body |-> body], "other", {})
-----------------------------------------------------------------------------
(* The request arrives.  The 9x server receives until the last bytes it    *)
(* has are a blank line or the buffer is full, the NT server once.         *)

CompleteLine(text) == Len(text) >= 2 /\ SubSeq(text, Len(text) - 1, Len(text)) = <<CR, LF>>
Complete(text) == Len(text) >= 4 /\ SubSeq(text, Len(text) - 3, Len(text)) = BlankLine

RoomWhole == RecvSize - got
Room == RecvSize - 1 - got

Arrive(n) ==
    /\ server = "recv" /\ ~gone /\ n > 0
    /\ got + n <= Len(Request(asked)) /\ n <= Room
    /\ got' = got + n
    /\ server' = IF platform = "nt" \/ Complete(Beginning(got')) \/ got' = RecvSize - 1
                   THEN "parse" ELSE "recv"
    /\ UNCHANGED <<given, asking, gone, parsed, page>>

Leave ==
    /\ server = "recv" /\ ~gone
    /\ gone' = TRUE
    /\ UNCHANGED <<given, asking, got, server, parsed, page>>

RecvEnds ==
    /\ server = "recv" /\ gone
    /\ server' = IF platform = "nt" THEN "done" ELSE "parse"
    /\ UNCHANGED <<given, asking, gone, got, parsed, page>>

ParseRequest ==
    /\ server = "parse"
    /\ parsed' = Parse(Received)
    /\ server' = IF Strays(parsed') THEN "undefined" ELSE "serve"
    /\ UNCHANGED <<given, asking, gone, got, page>>

Serve ==
    /\ server = "serve"
    /\ \E method \in ParseMethod(MethodToken(Received, parsed)) :
          page' = Answer(method, PathText(Received, parsed))
    /\ server' = IF page' = Nowhere THEN "undefined" ELSE "done"
    /\ UNCHANGED <<given, asking, gone, got, parsed>>
-----------------------------------------------------------------------------
Init ==
    /\ platform \in {"win9x", "nt"} /\ tree \in Trees
    /\ asked = Get(<<Slash>>) /\ how = "other" /\ want = {}
    /\ gone = FALSE /\ got = 0
    /\ server = "done" /\ parsed = Parse(<<>>) /\ page = NoPage

ClientStep ==
    \/ \E node \in DOMAIN tree, slash \in BOOLEAN : Type(node, slash)
    \/ \E url \in Mistyped : Mistype(url)
    \/ FollowRedirect \/ ClickParent
    \/ \E node \in DOMAIN tree : ClickEntry(node)
    \/ \E m \in Methods, lines \in {<<>>, HeaderLine}, body \in Bodies :
          AskOtherwise(m, lines, body)
    \/ \E n \in Pieces \cup {Len(Request(asked)) - got} : Arrive(n)
    \/ Leave

ServerStep == RecvEnds \/ ParseRequest \/ Serve

(* Undefined behaviour: nothing is said of what follows.                   *)
Terminated == server = "undefined" /\ UNCHANGED vars

Next == ClientStep \/ ServerStep \/ Terminated

Spec == Init /\ [][Next]_vars
-----------------------------------------------------------------------------
(* A request with a header line is understood whatever pieces it comes in  *)
(* on Windows 9x, and in one piece on NT: the method, the path and the     *)
(* header are the client's, and no loop of the parser leaves the text.     *)
(* Nor does the server wait for more when all of it has arrived.           *)
Fits(r) == Len(Request(r)) < RecvSize

Whole == /\ Fits(asked) /\ asked.lines # <<>>
         /\ IF platform = "win9x" THEN ~gone ELSE got = Len(Request(asked))

RequestUnderstood == Whole =>
    /\ (got = Len(Request(asked)) /\ asked.body = <<>>) => server # "recv"
    /\ server = "undefined" => page = Nowhere
    /\ server = "serve" =>
         /\ MethodToken(Received, parsed) = asked.method
         /\ PathText(Received, parsed) = asked.url
         /\ SubSeq(Received, parsed.header, parsed.headerEnd + 1) = asked.lines

(* What is served lies below the document root, for a URL that fits the    *)
(* buffers of its path (of one that does not nothing is said) and whose    *)
(* names are looked for in the file system: no devices and no streams.     *)
Confined == page.kind \in {"file", "listing", "redirect"} => page.node \in DOMAIN tree

(* What should be shown for a file or a directory.  The root's own URL     *)
(* means its index.html.                                                   *)
Shown(node) == IF tree[node] # "dir" THEN Opened(node)
               ELSE IF Append(node, Index) \in DOMAIN tree THEN Opened(Append(node, Index))
               ELSE Listing(node)
Home == IF <<Index>> \in DOMAIN tree THEN Shown(<<Index>>) ELSE Error(404)
Right(node) == {Shown(node)} \cup (IF node = <<>> THEN {Home} ELSE {})

(* The request was read whole, and neither its URL nor the path to an      *)
(* index.html below it is too long.                                        *)
Answered == /\ server = "done" /\ page # NoPage /\ Whole
            /\ Len(asked.url) < MaxPath /\ IndexPathFits(Clean(UrlDecode(asked.url)))

(* A typed URL, properly encoded, leads to the file or directory it names, *)
(* whatever characters the name has, but a name with two dots in a row;    *)
(* without its slash, a directory's URL is redirected.                     *)
DoubleDot(node) == \E i \in 1 .. Len(node) : \E j \in 1 .. Len(node[i]) - 1 :
                       node[i][j] = Dot /\ node[i][j + 1] = Dot

TypedIsServed == Answered /\ how = "typed" => \A node \in want : ~DoubleDot(node) =>
    CASE tree[node] = "dir" /\ Last(asked.url) # Slash -> page = Redirect(node)
      [] tree[node] # "dir" /\ Last(asked.url) = Slash -> page = Error(404)
      [] OTHER                                         -> page \in Right(node)

(* A link of a listing leads to its entry, if the entry's name has no two  *)
(* dots and none of the characters that mean something else in a URL, and  *)
(* ../ leads to the parent; a redirect leads to the directory that was     *)
(* asked for, not to another redirect.                                     *)
Plain(node) == node # <<>> =>
    /\ ~DoubleDot(<<Last(node)>>)
    /\ Range(Last(node)) \cap {Percent, Plus, Hash} = {}

LinksLead == Answered => \A node \in want :
    how = "redirect" \/ (how = "link" /\ Plain(node)) => page \in Right(node)
=============================================================================
