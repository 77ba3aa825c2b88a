----------------------------- MODULE RestServer -----------------------------
(***************************************************************************)
(* Rest::Server::Service (rest/server/Service.cpp): answers the HTTP       *)
(* requests an ingress hands it, stores the files of multipart uploads and *)
(* serves them.                                                            *)
(*                                                                         *)
(* Bodies are sequences of tokens, the texts that the multipart scanner    *)
(* looks for or copies.  A file name is the segments its slashes separate. *)
(* A definition X_Y is X with the mistake Y, used by no specification.     *)
(***************************************************************************)
EXTENDS Naturals, Sequences, SequencesExt

CONSTANTS Sockets   \* HTTP connections, one request on each

VARIABLES
  files,      \* the files of MEDIA_DIR: name -> contents
  mediaDir,   \* MEDIA_DIR exists
  diskFull,   \* a write may store less than it is given
  responses   \* for each socket, the responses sent

serverVars == <<files, mediaDir, diskFull, responses>>

Token(text) == [kind |-> text, filename |-> <<>>]
Delimiter == Token("delimiter")   \* two dashes and the boundary
Dashes == Token("dashes")
Crlf == Token("crlf")

\* The header of a part: name="file" or another name, and a file name.
PartHeader(name, filename) == [kind |-> name, filename |-> filename]

Init ==
  /\ files = [name \in {} |-> <<>>]
  /\ mediaDir \in BOOLEAN
  /\ diskFull = FALSE
  /\ responses = [s \in Sockets |-> <<>>]

----------------------------------------------------------------------------
(* The multipart scanner. *)

NoName == ""

safeFileName(raw) == IF raw = <<>> THEN NoName ELSE Last(raw)

\* The first position from which pattern occurs in body, at from or later; 0 if none.
IndexOf(body, pattern, from) ==
  LET at == {i \in from..(Len(body) - Len(pattern) + 1) :
               SubSeq(body, i, i + Len(pattern) - 1) = pattern}
  IN IF at = {} THEN 0 ELSE Min(at)

IsAt(body, i, token) == i \in DOMAIN body /\ body[i] = token

Chop(part) == IF IsAt(part, Len(part), Crlf) THEN Front(part) ELSE part

NoFile == [name |-> NoName, data |-> <<>>]

NamesFile_Any(header) == TRUE

\* A header names "file": the field of that name, or a field with that file name.
NamesFile(header) == header.kind = "file" \/ header.filename = <<"file">>

\* The file of a part: the headers name "file", and a file name that is not empty.
FileOfPart(part) ==
  LET headerEnd == IndexOf(part, <<Crlf, Crlf>>, 1)
      headers == 1..(headerEnd - 1)
      named == {i \in headers : NamesFile(part[i])}
      withFile == {i \in headers : part[i].filename # <<>>}
  IN IF headerEnd > 1 /\ named # {} /\ withFile # {}
     THEN [name |-> safeFileName(part[Min(withFile)].filename),
           data |-> SubSeq(part, headerEnd + 2, Len(part))]
     ELSE NoFile

parseMultipartFile(body) ==
  LET scan[cursor \in 1..(Len(body) + 1)] ==
        LET start == IndexOf(body, <<Delimiter>>, cursor)
            partStart == IF IsAt(body, start + 1, Crlf) THEN start + 2 ELSE start + 1
            nextBoundary == IndexOf(body, <<Delimiter>>, partStart)
            file == FileOfPart(Chop(SubSeq(body, partStart, nextBoundary - 1)))
        IN IF start = 0 \/ IsAt(body, start + 1, Dashes) \/ nextBoundary = 0
           THEN NoFile
           ELSE IF file.name # NoName THEN file ELSE scan[nextBoundary]
  IN scan[1]

----------------------------------------------------------------------------
(* The routes. *)

sendResponse(socket, status, body) ==
  responses' = [responses EXCEPT ![socket] = Append(@, [status |-> status, body |-> body])]

Text(text) == <<Token(text)>>

Written_NoTruncate(name, data) ==
  LET old == IF name \in DOMAIN files THEN files[name] ELSE <<>>
  IN {[n \in DOMAIN files \cup {name} |->
         IF n = name THEN data \o SubSeq(old, Len(data) + 1, Len(old)) ELSE files[n]]}

\* QFile::open truncates, and the result of write is not read.
Written(name, data) ==
  {[n \in DOMAIN files \cup {name} |-> IF n = name THEN stored ELSE files[n]] :
     stored \in IF diskFull THEN {SubSeq(data, 1, n) : n \in 0..Len(data)} ELSE {data}}

handleUploadMedia(socket, hasBoundary, body) ==
  LET file == parseMultipartFile(body) IN
  \/ /\ ~hasBoundary
     /\ sendResponse(socket, 400, Text("Missing multipart boundary"))
     /\ UNCHANGED <<files, mediaDir>>
  \/ /\ hasBoundary /\ file.name = NoName
     /\ sendResponse(socket, 400, Text("Missing file field"))
     /\ UNCHANGED <<files, mediaDir>>
  \/ /\ hasBoundary /\ file.name # NoName /\ ~mediaDir
     /\ sendResponse(socket, 500, Text("Failed to create media directory"))
     /\ UNCHANGED <<files, mediaDir>>
  \/ /\ hasBoundary /\ file.name # NoName
     /\ mediaDir' = TRUE
     /\ \/ sendResponse(socket, 500, Text("Failed to store uploaded file")) /\ UNCHANGED files
        \/ files' \in Written(file.name, file.data) /\ sendResponse(socket, 200, Text("Uploaded"))

\* A file that exists may still fail to open.
handleGetMedia(socket, path) ==
  LET name == safeFileName(SubSeq(path, 3, Len(path))) IN
  /\ \/ sendResponse(socket, 404, Text("Not Found"))
     \/ name \in DOMAIN files /\ sendResponse(socket, 200, files[name])
  /\ UNCHANGED <<files, mediaDir>>

IsMediaPath(path) == Len(path) >= 3 /\ path[1] = "" /\ path[2] = "media"

handleHttpRequest(socket, method, path, hasBoundary, body) ==
  LET isUpload == method = "POST" /\ path = <<"", "api", "media">>
      isGet == method = "GET" /\ IsMediaPath(path) IN
  /\ \/ /\ method = "OPTIONS"
        /\ sendResponse(socket, 204, <<>>)
        /\ UNCHANGED <<files, mediaDir>>
     \/ isUpload /\ handleUploadMedia(socket, hasBoundary, body)
     \/ isGet /\ handleGetMedia(socket, path)
     \/ /\ method # "OPTIONS" /\ ~isUpload /\ ~isGet
        /\ sendResponse(socket, 404, Text("Not Found"))
        /\ UNCHANGED <<files, mediaDir>>
  /\ UNCHANGED diskFull

\* The file system fills up, or room is made.
diskChanges ==
  /\ diskFull' = ~diskFull
  /\ UNCHANGED <<files, mediaDir, responses>>
=============================================================================
