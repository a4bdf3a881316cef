----------------------------- MODULE WebDropPost -----------------------------
(***************************************************************************)
(* One connection to Web Drop, cell by cell: read_head, handle_connection, *)
(* receive_upload and MultipartReader of protocols/webdrop.rs.             *)
(*                                                                         *)
(* A guest's browser sends a form of parts, and the reader hands their     *)
(* data on while it arrives, in pieces of any size: what it holds back is  *)
(* what could be the beginning of the line between two parts.  A browser   *)
(* that goes away ends the data, or breaks the connection, anywhere.       *)
(*                                                                         *)
(* Cells are strings: HEAD for the head of the request, CRLF, "--" and B   *)
(* for the delimiter, three for a Content-Disposition line (its word, the  *)
(* field's name, the file's name), one for any other header, and data.     *)
(* Which folder a file goes to, under which name, and the demo's quota are *)
(* WebDrop's.                                                              *)
(***************************************************************************)
EXTENDS Naturals, Sequences, SequencesExt

CONSTANTS Requests, \* what browsers ask for: [path, valid, parts]
          Leaf,     \* the last part of a file name that is a path
          MaxField, \* the longest field taken: 80 or 128 bytes in the code
          NoName    \* a part without a file name

VARIABLES
    request,   \* the request of this connection
    wire,      \* its cells not read yet
    gone,      \* how the browser went away, if it did
    buf,       \* cells read and not used: carry, then the reader's buf
    remaining, \* what is left to read of the Content-Length
    reader,    \* where the parser is
    part,      \* the headers of the current part
    out,       \* the data of the current part, as far as handed on
    fields,    \* device_id and device_label
    files,     \* the files written, in order
    answer     \* the response

postVars == <<request, wire, gone, buf, remaining, reader, part, out, fields, files, answer>>

CRLF == "CRLF"
Dashes == "--"
Delim == <<Dashes, "B">>
Needle == <<CRLF>> \o Delim
DISPOSITION == "content-disposition"

Skip(cells, n) == SubSeq(cells, n + 1, Len(cells))

\* What a browser sends for a part, and for all of them.
PartHead(p) == <<DISPOSITION, p.field, p.filename, CRLF, "content-type", CRLF, CRLF>>

PartCells(p) == Delim \o <<CRLF>> \o PartHead(p) \o p.data \o <<CRLF>>
Form(parts) ==
    FlattenSeq([i \in DOMAIN parts |-> PartCells(parts[i])]) \o Delim \o <<Dashes, CRLF>>

HasFile(p) == p.filename \notin {NoName, ""}
FileParts(parts) ==
    FlattenSeq([i \in DOMAIN parts |-> IF HasFile(parts[i]) THEN <<parts[i]>> ELSE <<>>])

\* The page's script appends device_id and device_label, once each, and then the
\* files (webdrop.rs:915); a browser takes a delimiter that is not in the data,
\* and names a file by more than a folder.
FormPart == [field : STRING, filename : STRING, data : Seq(STRING)]
DeviceFields == {"device_id", "device_label"}

ASSUME RequestsAssumption ==
    /\ \A r \in Requests : r.path = "upload" =>
          /\ r.parts \in Seq(FormPart)
          /\ \A i \in DOMAIN r.parts :
                LET p == r.parts[i] IN
                /\ CRLF \notin {p.field, p.filename}
                /\ \A j \in 1 .. Len(p.data) - 2 : SubSeq(p.data, j, j + 2) # Needle
                /\ HasFile(p) => p.filename \in DOMAIN Leaf
                /\ p.field \in DeviceFields =>
                      /\ ~HasFile(p)
                      /\ \A j \in 1 .. i - 1 : r.parts[j].field # p.field /\ ~HasFile(r.parts[j])
    /\ Leaf \in [DOMAIN Leaf -> STRING]
    /\ \A name \in DOMAIN Leaf : Leaf[name] # ""
    /\ MaxField \in Nat

NoPart == [field |-> NoName, filename |-> NoName]

PostTypeOK ==
    /\ gone \in {"no", "ended", "broken"}
    /\ remaining \in 0 .. Len(Form(request.parts))
    /\ reader \in {"head", "first", "headers", "body", "boundary", "finished", "closed"}
    /\ answer \in {0, 200, 204, 400, 404}
    /\ Len(files) <= Len(FileParts(request.parts))

PostInit ==
    /\ request \in Requests
    /\ wire = <<"HEAD">> \o (IF request.path = "upload" THEN Form(request.parts) ELSE <<>>)
    /\ gone = "no"
    /\ buf = <<>>
    /\ remaining = 0
    /\ reader = "head"
    /\ part = NoPart
    /\ out = <<>>
    /\ fields = [device_id |-> <<>>, device_label |-> <<>>]
    /\ files = <<>>
    /\ answer = 0

\* No connection.
NoRequest == [path |-> "none", valid |-> FALSE, parts |-> <<>>]

PostIdle ==
    /\ request = NoRequest
    /\ wire = <<>> /\ buf = <<>> /\ out = <<>> /\ files = <<>>
    /\ gone = "no"
    /\ remaining = 0 /\ answer = 0
    /\ reader = "closed"
    /\ part = NoPart
    /\ fields = [device_id |-> <<>>, device_label |-> <<>>]

-----------------------------------------------------------------------------
(* The connection and the head *)

\* The browser goes away: the end of the data, or an error.
BrowserGoes ==
    /\ gone = "no"
    /\ wire # <<>>
    /\ gone' \in {"ended", "broken"}
    /\ wire' = <<>>
    /\ UNCHANGED <<request, buf, remaining, reader, part, out, fields, files, answer>>

\* Every request is answered "Connection: close".
Answer(code) == reader' = "closed" /\ answer' = code

\* read_head and handle_connection: the body of an upload may have begun in what
\* was read with the head.  An upload without boundary or length, or too large,
\* is refused.
HandleHead ==
    /\ reader = "head"
    /\ wire # <<>>
    /\ \E n \in 1 .. Len(wire) :
          /\ buf' = SubSeq(wire, 2, n)
          /\ wire' = Skip(wire, n)
          /\ remaining' = Len(wire) - n
    /\ \/ request.path \in {"page", "ping"} /\ Answer(200)
       \/ request.path = "favicon" /\ Answer(204)
       \/ request.path = "unknown" /\ Answer(404)
       \/ request.path = "upload" /\ ~request.valid /\ Answer(400)
       \/ request.path = "upload" /\ request.valid /\ reader' = "first" /\ UNCHANGED answer
    /\ UNCHANGED <<request, gone, part, out, fields, files>>

HeadMissing ==
    /\ reader = "head"
    /\ wire = <<>>
    /\ reader' = "closed"
    /\ UNCHANGED <<request, wire, gone, buf, remaining, part, out, fields, files, answer>>

-----------------------------------------------------------------------------
(* MultipartReader *)

\* find_subslice: where needle is in buf, 0 for nowhere.
FindIn(cells, needle) ==
    LET at == {i \in 1 .. Len(cells) - Len(needle) + 1 :
                  SubSeq(cells, i, i + Len(needle) - 1) = needle}
    IN IF at = {} THEN 0 ELSE CHOOSE i \in at : \A j \in at : i <= j

LineEnd == FindIn(buf, <<CRLF>>)
Line == SubSeq(buf, 1, LineEnd - 1)
AfterLine == Skip(buf, LineEnd)

\* Mutant: the tail is too short for what may be there of the delimiter.
KeptTooShort == Len(Needle) - 2

\* The tail of the data that could begin a delimiter.
Kept == Len(Needle)

\* The reader waits for more than it has.
Hungry ==
    \/ reader \in {"first", "headers", "boundary"} /\ LineEnd = 0
    \/ reader = "body" /\ FindIn(buf, Needle) = 0 /\ Len(buf) <= Kept

\* fill
Fill ==
    /\ Hungry
    /\ remaining > 0 /\ wire # <<>>
    /\ \E n \in 1 .. Len(wire) :
          /\ buf' = buf \o SubSeq(wire, 1, n)
          /\ wire' = Skip(wire, n)
          /\ remaining' = remaining - n
    /\ UNCHANGED <<request, gone, reader, part, out, fields, files, answer>>

\* sanitize
Sanitized(name) == Leaf[name]

\* read_field_string
TooLong(data) == Len(data) > MaxField

IsField == ~HasFile(part) /\ part.field \in DOMAIN fields

\* The data of a part is complete: a file is announced, a field is kept unless it
\* is too long, anything else is dropped.
PartDone(data, next) ==
    /\ out' = <<>>
    /\ files' = IF HasFile(part)
                THEN Append(files, [name |-> Sanitized(part.filename), data |-> data, by |-> fields])
                ELSE files
    /\ fields' = IF IsField /\ ~TooLong(data) THEN [fields EXCEPT ![part.field] = data] ELSE fields
    /\ IF IsField /\ TooLong(data) THEN Answer(400) ELSE reader' = next /\ UNCHANGED answer

\* There is no more: a broken connection fails the upload, and leaves the file
\* it was writing; the end of the data inside of a part ends the part and the
\* form; inside of its headers it is an error, and behind the last delimiter too,
\* as its line counts as empty.
Starved ==
    /\ Hungry
    /\ wire = <<>>
    /\ \/ /\ gone = "broken" /\ remaining > 0
          /\ Answer(400)
          /\ UNCHANGED <<buf, out, fields, files>>
       \/ /\ gone # "broken" \/ remaining = 0
          /\ \/ /\ reader = "body"
                /\ PartDone(out \o buf, "finished")
                /\ buf' = <<>>
             \/ /\ reader = "boundary"
                /\ reader' = "headers"
                /\ UNCHANGED <<buf, out, fields, files, answer>>
             \/ /\ reader \in {"first", "headers"}
                /\ Answer(400)
                /\ UNCHANGED <<buf, out, fields, files>>
    /\ remaining' = 0
    /\ UNCHANGED <<request, wire, gone, part>>

Closing(line) == Len(line) > 0 /\ line[Len(line)] = Dashes

\* next_part, once: the first line is the delimiter.
FirstLine ==
    /\ reader = "first" /\ LineEnd # 0
    /\ IF SubSeq(Line, 1, Len(Delim)) # Delim THEN Answer(400)
       ELSE /\ reader' = IF Closing(Line) THEN "finished" ELSE "headers"
            /\ UNCHANGED answer
    /\ buf' = AfterLine
    /\ part' = NoPart
    /\ UNCHANGED <<request, wire, gone, remaining, out, fields, files>>

\* parse_content_disposition, of a line that is one.
Disposition(line) == [field |-> line[2], filename |-> line[3]]

\* next_part: the first name and the last file name count, up to a blank line.
HeaderLine ==
    /\ reader = "headers" /\ LineEnd # 0
    /\ part' = IF Line # <<>> /\ Line[1] = DISPOSITION
               THEN LET d == Disposition(Line) IN
                    [field |-> IF part.field = NoName THEN d.field ELSE part.field,
                     filename |-> IF d.filename # NoName THEN d.filename ELSE part.filename]
               ELSE part
    /\ reader' = IF Line = <<>> THEN "body" ELSE "headers"
    /\ buf' = AfterLine
    /\ UNCHANGED <<request, wire, gone, remaining, out, fields, files, answer>>

\* stream_part_to hands on all but the tail.
Flush ==
    /\ reader = "body"
    /\ FindIn(buf, Needle) = 0
    /\ Len(buf) > Kept
    /\ out' = out \o SubSeq(buf, 1, Len(buf) - Kept)
    /\ buf' = Skip(buf, Len(buf) - Kept)
    /\ UNCHANGED <<request, wire, gone, remaining, reader, part, fields, files, answer>>

\* stream_part_to at the delimiter.
EndPart ==
    LET at == FindIn(buf, Needle) IN
    /\ reader = "body"
    /\ at # 0
    /\ PartDone(out \o SubSeq(buf, 1, at - 1), "boundary")
    /\ buf' = Skip(buf, at)
    /\ UNCHANGED <<request, wire, gone, remaining, part>>

\* consume_boundary
BoundaryLine ==
    /\ reader = "boundary" /\ LineEnd # 0
    /\ reader' = IF Closing(Line) THEN "finished" ELSE "headers"
    /\ buf' = AfterLine
    /\ part' = NoPart
    /\ UNCHANGED <<request, wire, gone, remaining, out, fields, files, answer>>

Finish ==
    /\ reader = "finished"
    /\ Answer(200)
    /\ UNCHANGED <<request, wire, gone, buf, remaining, part, out, fields, files>>

ReaderStep ==
    \/ HandleHead \/ HeadMissing \/ Fill \/ Starved
    \/ FirstLine \/ HeaderLine \/ Flush \/ EndPart \/ BoundaryLine \/ Finish

PostNext == ReaderStep \/ BrowserGoes

PostSpec == PostInit /\ [][PostNext]_postVars

PostFairness == WF_postVars(ReaderStep)

-----------------------------------------------------------------------------
(* Properties *)

\* The fields sent before the k-th file.
SentFields(name) ==
    LET at == {i \in DOMAIN request.parts : request.parts[i].field = name} IN
    IF at = {} THEN <<>> ELSE request.parts[CHOOSE i \in at : \A j \in at : i <= j].data

(* Each file that is announced has the name and the data its part was sent *)
(* with, and the guest's fields, however the form is cut into pieces, and  *)
(* data that looks like a delimiter is data; only the last file of a       *)
(* browser that went away may be a part of one.  A form answered with      *)
(* success has had all its files saved (MultipartReader, receive_upload).  *)
PartsArriveAsSent ==
    LET sent == FileParts(request.parts) IN
    /\ \A k \in DOMAIN files :
          /\ files[k].name = Sanitized(sent[k].filename)
          /\ files[k].by = [device_id |-> SentFields("device_id"),
                            device_label |-> SentFields("device_label")]
          /\ gone = "no" \/ k < Len(files) => files[k].data = sent[k].data
    /\ answer = 200 /\ request.path = "upload" /\ gone = "no" => Len(files) = Len(sent)

=============================================================================
