-------------------------------- MODULE MCBrowse --------------------------------
(***************************************************************************)
(* The document root has at most one entry beside an index.html, and a     *)
(* directory there at most one beside its own.  In some trees it is itself *)
(* called index.html.  The names have a space, a plus, an escape and two   *)
(* dots.  The mistyped URLs lead out of the root, past the buffer, to a    *)
(* device and to a stream, or say the same in another way.                 *)
(***************************************************************************)
EXTENDS Browse

LetterA == 97
IndexHtml == <<105>>
Console   == <<110>>
SpaceName  == <<LetterA, SP, LetterA>>
PlusName   == <<LetterA, Plus>>
EscapeName == <<Percent, 50, 48>>
DotsName   == <<LetterA, Dot, Dot, LetterA>>

Names == {<<LetterA>>, SpaceName, PlusName, EscapeName, DotsName}

File1(n) == {<<>> :> "dir" @@ <<n>> :> kind : kind \in {"file", "locked"}}
Dir1(n)  == {<<>> :> "dir" @@ <<n>> :> "dir" @@ <<n, m>> :> kind :
                m \in {<<LetterA>>, SpaceName, IndexHtml}, kind \in {"file", "dir"}}
Indexed(t) == t @@ <<IndexHtml>> :> "file"

SomeTrees == UNION {File1(n) \cup Dir1(n) : n \in Names} \cup Dir1(IndexHtml)
             \cup {Indexed(t) : t \in Dir1(<<LetterA>>) \cup Dir1(PlusName)}

SomeDevices == {Console}

Long(n) == <<Slash>> \o [k \in 1 .. n |-> LetterA]

SomeUrls == {Long(9), Long(12), Long(13),
             <<Slash, Dot>>, <<Slash, Slash>>, <<Slash, Dot, Dot, Slash, LetterA>>,
             <<Slash, Percent, 50, 69, Dot, Slash>>, <<Slash, Percent, 48, 48>>,
             <<Slash, Percent, 53, 67, LetterA>>,
             <<Slash, LetterA, Slash, Slash>>,
             <<Slash, LetterA, Slash>> \o Console,
             <<Slash, LetterA, LetterA, Colon, LetterA>>,
             <<Slash, LetterA, Percent, 53, 67, LetterA, Slash>>}
=============================================================================
