--------------------------- MODULE MCRestSession ---------------------------
(* Instances of RestSession for TLC: the vocabulary of the runs. *)
EXTENDS RestSession

Backend == [host |-> "127.0.0.1:5000", slash |-> FALSE]
TwoUrls == {Backend, [Backend EXCEPT !.slash = TRUE]}

Use(verb, endpoint, binary) ==
  [verb |-> verb, endpoint |-> endpoint,
   pending |-> [isBinaryDownload |-> binary, hasCallback |-> TRUE]]

\* A file as bytes and as an object, with the leading slash and without; no file; a
\* post that is no upload; a delete whose answer nobody waits for.
MediaUses ==
  {Use("GET", <<"", "media", "a.json">>, TRUE), Use("GET", <<"media", "a.json">>, FALSE),
   Use("GET", <<"media", "">>, TRUE), Use("POST", <<"", "api", "media">>, FALSE),
   [Use("DELETE", <<"media", "a.json">>, FALSE) EXCEPT !.pending.hasCallback = FALSE]}

Object == <<Server!Token("object")>>
Pixels == <<Server!Token("pixels")>>
LineEnds == <<Server!Crlf, Server!Dashes, Server!Crlf, Server!Crlf>>

File(filename, payload) == [header |-> Server!PartHeader("file", filename), payload |-> payload]
Field(payload) == [header |-> Server!PartHeader("title", <<>>), payload |-> payload]
Image(filename, payload) == [header |-> Server!PartHeader("image", filename), payload |-> payload]

Whole(parts) == [parts |-> parts, boundary |-> TRUE, cut |-> FALSE]

\* A file alone; one named with a path, after another field; one behind a file whose
\* name is unusable; one that another field holds; one behind a file called "file" that
\* another field holds; forms cut short before the last delimiter, or sent without a
\* boundary.  Payloads are empty or made of what the scanner looks for.
UploadForms ==
  {Whole(<<File(<<"a.json">>, Object)>>),
   Whole(<<Field(LineEnds), File(<<"C:", "a.json">>, LineEnds)>>),
   Whole(<<File(<<"dir", "">>, Pixels), File(<<"b.png">>, <<>>)>>),
   Whole(<<Image(<<"c.png">>, Pixels), File(<<>>, Object)>>),
   Whole(<<Image(<<"file">>, Pixels), File(<<"a.json">>, Object)>>),
   [Whole(<<File(<<"a.json">>, Pixels), File(<<"b.png">>, Object)>>) EXCEPT !.cut = TRUE],
   [Whole(<<File(<<"a.json">>, Object)>>) EXCEPT !.cut = TRUE],
   [Whole(<<File(<<"a.json">>, Object)>>) EXCEPT !.boundary = FALSE]}

Stored == {Object, Pixels, LineEnds, <<>>}
Texts == {Server!Text(text) : text \in {"Not Found", "Missing multipart boundary"}}
AnyBodies == Stored \cup Texts \cup {SubSeq(LineEnds, 1, n) : n \in 1..3}
Objects == {Object}
Empty == <<>>
============================================================================
