-------------------------------- MODULE HttpText --------------------------------
(***************************************************************************)
(* How the server reads text (server_http.c): the request line and header  *)
(* of parse_http_request, and the way of a URL to a file's path.  Text is  *)
(* a sequence of character codes.                                          *)
(***************************************************************************)
EXTENDS Integers, Sequences, SequencesExt

CONSTANTS MaxPath,   \* MAX_PATH
          RootLen,   \* length of g_document_root
          Index,     \* the name index.html
          Devices    \* names that Win32 takes for devices in every directory

LF == 10
CR == 13
SP == 32
Percent == 37
Plus == 43
Dot == 46
Slash == 47
Colon == 58
Backslash == 92
Digits == 48 .. 57
UpperHex == 65 .. 70
LowerHex == 97 .. 102

(* < > | " * ?                                                             *)
Forbidden == {60, 62, 124, 34, 42, 63}

(* What Windows allows in a file name, and what names a file.              *)
NameChars == (32 .. 255) \ (Forbidden \cup {Slash, Colon, Backslash})
ValidName(name) == /\ name \in Seq(NameChars)
                   /\ name \notin {<<>>, <<Dot>>, <<Dot, Dot>>} \cup Devices
-----------------------------------------------------------------------------
(* The loops of the parser stop at what they look for and at nothing else: *)
(* where the received text does not have it they leave it behind.          *)
Stray == 0

Scan(text, from, c) ==
    IF from = Stray THEN Stray
    ELSE SelectInSubSeq(text, from, Len(text), LAMBDA x : x = c)

After(p) == IF p = Stray THEN Stray ELSE p + 1

BlankLine == <<CR, LF, CR, LF>>

ScanBlank(text, from) ==
    LET hits == {i \in from .. Len(text) - 3 : SubSeq(text, i, i + 3) = BlankLine}
    IN  IF from = Stray \/ hits = {} THEN Stray
        ELSE CHOOSE i \in hits : \A j \in hits : i <= j

(* method_map, in its order: GET, POST, PUT, PATCH.  A name is compared    *)
(* over the length of what was received, and a method that is none of them *)
(* is whatever the uninitialised variable holds.                           *)
MethodNames == << <<71, 69, 84>>, <<80, 79, 83, 84>>, <<80, 85, 84>>, <<80, 65, 84, 67, 72>> >>
GET == 1

Capital(c) == IF c \in 97 .. 122 THEN c - 32 ELSE c
Capitals(s) == [i \in 1 .. Len(s) |-> Capital(s[i])]

ParseMethod(token) ==
    LET first == SelectInSeq(MethodNames, LAMBDA name : IsPrefix(Capitals(token), name))
    IN  IF first # 0 THEN {first} ELSE 0 .. Len(MethodNames)

(* parse_http_request: where the method and the path end, and the header's *)
(* first and last positions.  The path begins after the space.             *)
Parse(text) ==
    LET methodEnd == Scan(text, 1, SP)
        header    == After(Scan(text, 1, LF))
    IN  [methodEnd |-> methodEnd,
         pathEnd   |-> Scan(text, After(methodEnd), SP),
         header    |-> header,
         headerEnd |-> ScanBlank(text, header)]

Strays(request) == \E f \in DOMAIN request : request[f] = Stray

MethodToken(text, request) == SubSeq(text, 1, request.methodEnd - 1)
PathText(text, request)    == SubSeq(text, request.methodEnd + 1, request.pathEnd - 1)
-----------------------------------------------------------------------------
(* url_decode *)

HexValLower(c) == CASE c \in Digits   -> c - 48
                    [] c \in LowerHex -> c - 87
                    [] OTHER          -> 0
HexVal(c) == CASE c \in Digits   -> c - 48
               [] c \in UpperHex -> c - 55
               [] c \in LowerHex -> c - 87
               [] OTHER          -> 0

DecodeFrom(s) ==
    LET d[i \in 1 .. Len(s) + 1] ==
          IF i > Len(s) THEN <<>>
          ELSE IF s[i] = Percent /\ i + 2 <= Len(s)
                 THEN <<16 * HexVal(s[i + 1]) + HexVal(s[i + 2])>> \o d[i + 3]
                 ELSE <<IF s[i] = Plus THEN SP ELSE s[i]>> \o d[i + 1]
    IN  d

UrlDecode(s) == DecodeFrom(s)[1]

(* Readers of a C string stop at the first 0.                              *)
CString(s) == SubSeq(s, 1, SelectInSeq(Append(s, 0), LAMBDA c : c = 0) - 1)

IsSafePathButDots(path) ==
    /\ path # <<>> => path[1] # Backslash
    /\ Len(path) > 1 => path[2] # Colon
    /\ \A i \in 1 .. Len(path) : path[i] \notin Forbidden

IsSafePath(path) ==
    /\ \A i \in 1 .. Len(path) - 1 : ~(path[i] = Dot /\ path[i + 1] = Dot)
    /\ path # <<>> => path[1] # Backslash
    /\ Len(path) > 1 => path[2] # Colon
    /\ \A i \in 1 .. Len(path) : path[i] \notin Forbidden

(* index.html is a name like others, and has a URL.                        *)
ASSUME TextAssumption == /\ MaxPath \in Nat /\ RootLen \in Nat
                         /\ ValidName(Index) /\ IsSafePath(Index)

(* resolve_file_path: the path below the document root.  It is written     *)
(* behind the root into full_path, which has room for MAX_PATH characters, *)
(* and only then is its length compared: a path that is too long has by    *)
(* then overrun the buffer.                                                *)
Refused == <<0>>
Overrun == <<0, 0>>
Unresolved == {Refused, Overrun}

Clean(decoded) == IF decoded # <<>> /\ Head(decoded) = Slash THEN Tail(decoded) ELSE decoded

Resolve(url) ==
    LET clean == Clean(CString(UrlDecode(url)))
        path  == IF clean = <<>> THEN Index ELSE clean
    IN  IF ~IsSafePath(clean) THEN Refused
        ELSE IF RootLen + 1 + Len(path) < MaxPath THEN path
        ELSE Overrun
=============================================================================
