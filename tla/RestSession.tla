---------------------------- MODULE RestSession ----------------------------
(***************************************************************************)
(* The REST client and the REST server over HTTP, with browsers that       *)
(* upload files.  The ingress that parses HTTP is not in this repository:  *)
(* it hands the server a request and closes the connection once it is      *)
(* answered.  A request or its response may be lost, or late: the client   *)
(* gives up after a transfer timeout, the server does what it was asked.   *)
(***************************************************************************)
EXTENDS RestClient, SequencesExt

CONSTANTS
  Forms,      \* what browsers upload: forms, whole or cut short
  MaxUploads  \* bound: uploads made

VARIABLES files, mediaDir, diskFull, responses,
  uploads     \* the uploads made, in order, with what came of them

Sockets == 1..(MaxCalls + MaxUploads)   \* the client's, then the browsers'

Server == INSTANCE RestServer

serverState == <<files, mediaDir, diskFull, responses>>
sessionVars == <<clientVars, serverState, uploads>>

SessionInit ==
  /\ Init
  /\ Server!Init
  /\ uploads = <<>>

----------------------------------------------------------------------------
(* A form: its parts, a header line and a payload each, whether the content  *)
(* type names a boundary, and whether the body ends before the last          *)
(* delimiter.                                                                *)

EncodePart(part) ==
  <<Server!Delimiter, Server!Crlf, part.header, Server!Crlf, Server!Crlf>>
    \o part.payload \o <<Server!Crlf>>

Encode(form) ==
  FlattenSeq([i \in 1..Len(form.parts) |-> EncodePart(form.parts[i])])
    \o (IF form.cut THEN <<>> ELSE <<Server!Delimiter, Server!Dashes>>)

\* A header names "file" when its field is "file"; and when its file is called
\* "file", whichever field that is in, since filename="file" ends in name="file".
NamesFile(header) == header.kind = "file" \/ header.filename = <<"file">>

\* The file that a form holds: its first part, among those that arrived whole,
\* whose header names "file" and gives a file name.
FileParts(form) ==
  {i \in 1..(IF form.cut THEN Len(form.parts) - 1 ELSE Len(form.parts)) :
     LET header == form.parts[i].header IN
     NamesFile(header) /\ header.filename # <<>> /\ Last(header.filename) # Server!NoName}

FilePart(form) == form.parts[Min(FileParts(form))]

HasFile(form) == form.boundary /\ FileParts(form) # {}
FileName(form) == Last(FilePart(form).header.filename)
FileData(form) == FilePart(form).payload

\* The texts of a body.
Tokens ==
  {Server!Delimiter, Server!Dashes, Server!Crlf} \cup [kind : STRING, filename : Seq(STRING)]

\* What a browser makes: the delimiter is chosen to occur in no payload, and a header
\* is no line end.
WellMade(form) ==
  /\ form.cut \in BOOLEAN
  /\ form.parts \in Seq([header : Tokens, payload : Seq(Tokens)])
  /\ \A i \in 1..Len(form.parts) :
       LET part == form.parts[i] IN
       /\ part.header \notin {Server!Delimiter, Server!Crlf}
       /\ \A k \in 1..Len(part.payload) : part.payload[k] # Server!Delimiter

\* The scanner finds the file of every form that holds one, under its name and byte
\* for byte, whatever line ends its payload holds and whichever fields come first;
\* and it finds none in the others.  It is the field "file", unless a file that is
\* called "file" comes before it in another field.
FormsAreRead ==
  \A form \in Forms : form.boundary =>
    LET file == Server!parseMultipartFile(Encode(form)) IN
    /\ file.name # Server!NoName <=> HasFile(form)
    /\ HasFile(form) => file = [name |-> FileName(form), data |-> FileData(form)]

\* The client's Bodies hold what the server can answer its calls with: two of its
\* texts, and the files of the forms, whole or as far as a write got.
ASSUME SessionAssumption ==
  /\ MaxUploads \in Nat
  /\ \A form \in Forms : WellMade(form)
  /\ {Server!Text("Not Found"), Server!Text("Missing multipart boundary")} \subseteq Bodies
  /\ \A form \in Forms : HasFile(form) =>
       /\ FileData(form) \in Bodies
       /\ \A n \in 0..Len(FileData(form)) : SubSeq(FileData(form), 1, n) \in Bodies

----------------------------------------------------------------------------

ClientActs == ApplicationStep /\ UNCHANGED <<serverState, uploads>>

ServerHandles(c) ==
  /\ c <= Len(requests)
  /\ responses[c] = <<>>
  /\ Server!handleHttpRequest(c, requests[c].verb, requests[c].path, FALSE, <<>>)
  /\ UNCHANGED <<clientVars, uploads>>

Status(response) == [error |-> response.status >= 400, body |-> response.body]

ResponseArrives(c) ==
  /\ c <= Len(requests)
  /\ responses[c] # <<>>
  /\ handleResponse(c, Status(Head(responses[c])))
  /\ UNCHANGED <<serverState, uploads>>

\* Refused, lost, or no answer for 30 seconds.
NetworkFails(c) ==
  /\ c <= Len(requests)
  /\ handleResponse(c, [error |-> TRUE, body |-> NoBody])
  /\ UNCHANGED <<serverState, uploads>>

BrowserUploads(form) ==
  LET socket == MaxCalls + Len(uploads) + 1 IN
  /\ Len(uploads) < MaxUploads
  /\ Server!handleHttpRequest(socket, "POST", <<"", "api", "media">>, form.boundary, Encode(form))
  /\ uploads' = Append(uploads, [form |-> form, short |-> diskFull,
                                 done |-> Head(responses'[socket]).status = 200])
  /\ UNCHANGED clientVars

\* A browser asks first whether it may.
BrowserAsks ==
  LET socket == MaxCalls + Len(uploads) + 1 IN
  /\ Len(uploads) < MaxUploads
  /\ Server!handleHttpRequest(socket, "OPTIONS", <<"", "api", "media">>, FALSE, <<>>)
  /\ uploads' = Append(uploads, [form |-> [parts |-> <<>>, boundary |-> FALSE, cut |-> FALSE],
                                 short |-> FALSE, done |-> FALSE])
  /\ UNCHANGED clientVars

SessionNext ==
  \/ ClientActs
  \/ \E c \in Calls : ServerHandles(c) \/ ResponseArrives(c) \/ NetworkFails(c)
  \/ \E form \in Forms : BrowserUploads(form)
  \/ BrowserAsks
  \/ Server!diskChanges /\ UNCHANGED <<clientVars, uploads>>

SessionSpec == SessionInit /\ [][SessionNext]_sessionVars

\* The transfer timeout ends every reply.
FairSessionSpec == SessionSpec /\ \A c \in Calls : WF_sessionVars(NetworkFails(c))

----------------------------------------------------------------------------
(* Properties. *)

\* The uploads the server reported as done, under a name.
DoneAs(name) ==
  {u \in 1..Len(uploads) : uploads[u].done /\ FileName(uploads[u].form) = name}

\* What an upload leaves under its name: its file, or a beginning of it if the disk
\* was full.
LeftBy(upload, data) ==
  IF upload.short THEN IsPrefix(data, FileData(upload.form)) ELSE data = FileData(upload.form)

\* The server reports an upload as done only when the form held a file, and what it
\* keeps under a name is the last one it reported: uploads that failed in between have
\* left no trace, and so have longer files of that name.  A write that fell short is
\* reported all the same, and has left a beginning of its file, nothing else.
ReportedIsKept ==
  /\ \A u \in 1..Len(uploads) : uploads[u].done => HasFile(uploads[u].form)
  /\ \A name \in DOMAIN files :
       /\ DoneAs(name) # {}
       /\ LET last == CHOOSE u \in DoneAs(name) : \A v \in DoneAs(name) : v <= u
          IN LeftBy(uploads[last], files[name])

\* A browser is told that its form is bad (400) exactly when no part that arrived whole
\* names "file" and gives a file name: no part before that one, line end in a payload or
\* missing end misleads the scanner.
RefusalsAreRight ==
  \A u \in 1..Len(uploads) :
    HasFile(uploads[u].form) <=> Head(responses[MaxCalls + u]).status \in {200, 500}

\* A download that succeeds gives the application, byte by byte, a file that was
\* uploaded under the name it asked for; and get() an object that was.  If that write
\* fell short it is a beginning of the file, never parts of two.
AskedFor(c) == Last(requests[c].path)

DownloadsAreTrue ==
  \A c \in Calls : \A i \in 1..Len(completions[c]) :
    LET outcome == completions[c][i] IN
    outcome.ok => \E u \in DoneAs(AskedFor(c)) : LeftBy(uploads[u], outcome.body)

\* Every call with a callback is answered, whatever becomes of its request.
CallsAnswered == \A c \in Calls : c \in Outstanding ~> completions[c] # <<>>
=============================================================================
