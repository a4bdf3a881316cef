------------------------------- MODULE Uploads -------------------------------
(***************************************************************************)
(* One /Upload from end to end, cell by cell: the sender of this program   *)
(* (collect_entries, build_archive, post_upload_streamed and               *)
(* read_http_response of airdrop_client.rs) or a foreign one, the          *)
(* connection, and the receiver (read_http_request, handle_upload and its  *)
(* body readers of http_server.rs, with Cpio's Extract).                   *)
(*                                                                         *)
(* Between the two looks at a file, for its size and for its data, the     *)
(* receiver's user is asked, so the files may change in between.  The      *)
(* connection is ordered, hands data over in pieces of any size, and may   *)
(* break anywhere; a TLS stream that ends without a farewell is an error   *)
(* for who reads it, one that is closed properly is the end of the data.   *)
(* What goes over it after the head is what Cpio's cells are, with EOL for *)
(* the line ends of the chunked encoding; the head is one cell.            *)
(***************************************************************************)
EXTENDS Cpio

CONSTANTS Files,      \* files on the sender's disk
          Rel,        \* the path of each, seen from where it was selected
          Selections, \* what the user drops: sequences of [folder, files]
          Sources,    \* what the files may hold at first: sequences of cells
          Growth,     \* the cell a file grows by
          Changes,    \* changes to files while the receiver is asked (bound)
          Foreign,    \* uploads of other senders: [framing, expect, cpio,
                      \*   entries, data, body]
          Folders0,   \* what may be in the receive folder before
          ChunkSize,  \* cells in a chunk: 64 KiB in the code
          Window      \* cells on their way that make a writer wait

ASSUME UploadsAssumption ==
    /\ ChunkSize \in 1 .. Base - 1
    /\ IsFiniteSet(Files)
    /\ Rel \in [Files -> Seq(STRING) \ {<<>>}]
    /\ Selections \subseteq Seq([folder : BOOLEAN, files : SUBSET Files])
    /\ Sources \subseteq [Files -> Seq(STRING)]
    /\ Growth \in STRING
    /\ \A f \in Foreign : f.body \in Seq(STRING)

VARIABLES
    source,    \* what each file holds, or Gone
    changes,   \* changes made to files
    job,       \* what is sent, and how it is framed
    sender,    \* the task that sends
    unsent,    \* cells of the body still to send
    link,      \* the connection: up, closed (properly), or lost
    up, down,  \* cells and replies on their way
    server,    \* the task that receives
    pending,   \* cells read that belong to what comes next
    body,      \* the body, decoded, as far as it is not unpacked
    saved,     \* the files unpacked so far
    disk,      \* the receive folder
    before,    \* the receive folder at first (history)
    announced, \* the files sent to the feed
    complete   \* the sender has written the end of the upload (history)

senderVars == <<source, changes, job, sender, unsent, complete>>
receiverVars == <<server, pending, body, saved, disk, announced>>
uploadVars == <<senderVars, receiverVars, link, up, down, before>>

Gone == <<"gone">>
EOL == "EOL"
HEAD == "HEAD"

SenderSteps == {"choosing", "asking", "ready", "awaiting", "sending", "answering",
                "ok", "failed"}
ServerSteps == {"head", "length", "handling", "chunks", "opening", "unpacking",
                "closed"}

\* This program's own upload, before anything is known of it.
OwnJob == [own |-> TRUE, framing |-> "chunked", expect |-> TRUE, cpio |-> TRUE,
           entries |-> <<>>, data |-> <<>>, length |-> 0]

ForeignJob(f) == [own |-> FALSE, framing |-> f.framing, expect |-> f.expect,
                  cpio |-> f.cpio, entries |-> f.entries, data |-> f.data,
                  length |-> Len(f.body)]

UploadsTypeOK ==
    /\ sender \in SenderSteps
    /\ server \in ServerSteps
    /\ link \in {"up", "closed", "lost"}
    /\ changes \in 0 .. Changes
    /\ complete \in BOOLEAN
    /\ DOMAIN source = Files
    /\ Len(job.data) \in {0, Len(job.entries)}
    /\ \A i \in DOMAIN announced : IsFile(disk, announced[i])
    /\ \A p \in DOMAIN before : p \in DOMAIN disk /\ disk[p] = before[p]

UploadsInit ==
    /\ changes = 0
    /\ \/ /\ source \in Sources
          /\ job = OwnJob
          /\ sender = "choosing"
          /\ unsent = <<>>
       \/ /\ source = [f \in Files |-> Gone]
          /\ \E f \in Foreign : job = ForeignJob(f) /\ unsent = f.body
          /\ sender = "ready"
    /\ link = "up"
    /\ up = <<>> /\ down = <<>>
    /\ server = "head"
    /\ pending = <<>> /\ body = <<>> /\ saved = <<>>
    /\ disk \in Folders0
    /\ before = disk
    /\ announced = <<>>
    /\ complete = FALSE

\* No upload.
UploadsIdle ==
    /\ source = [f \in Files |-> Gone]
    /\ changes = 0
    /\ job = OwnJob
    /\ sender = "failed" /\ server = "closed" /\ link = "closed"
    /\ unsent = <<>> /\ up = <<>> /\ down = <<>>
    /\ pending = <<>> /\ body = <<>> /\ saved = <<>> /\ announced = <<>>
    /\ disk = <<>> /\ before = <<>>
    /\ complete = FALSE

-----------------------------------------------------------------------------
(* The sender *)

\* walk_dir lists a folder in any order, without the files it cannot look at.
Walks(files) ==
    LET there == {f \in files : source[f] # Gone}
    IN {w \in [1 .. Cardinality(there) -> there] :
           \A i, j \in DOMAIN w : w[i] = w[j] => i = j}

Walked(items) ==
    LET walks == [i \in DOMAIN items |-> Walks(items[i].files)] IN
    {FlattenSeq(w) : w \in {w \in [DOMAIN items -> UNION Range(walks)] :
                               \A i \in DOMAIN items : w[i] \in walks[i]}}

\* collect_entries, on all that was selected: a selected file that is not there
\* fails, and so does a transfer of nothing.
Collect ==
    /\ sender = "choosing"
    /\ \E items \in Selections :
          \/ /\ \/ \E i \in DOMAIN items : /\ ~items[i].folder
                                           /\ \E f \in items[i].files : source[f] = Gone
                \/ <<>> \in Walked(items)
             /\ sender' = "failed"
             /\ UNCHANGED job
          \/ /\ \A i \in DOMAIN items : items[i].folder \/ Gone \notin {source[f] : f \in items[i].files}
             /\ \E walk \in Walked(items) \ {<<>>} :
                   job' = [job EXCEPT !.entries = [i \in DOMAIN walk |->
                              [file |-> walk[i], name |-> Rel[walk[i]],
                               size |-> Len(source[walk[i]])]]]
             /\ sender' = "asking"
    /\ UNCHANGED <<source, changes, unsent, complete, receiverVars, link, up, down, before>>

\* While /Discover and /Ask take their time, a file grows, shrinks or goes.
FileChanges(f) ==
    /\ sender = "asking"
    /\ changes < Changes
    /\ source[f] # Gone
    /\ \/ source' = [source EXCEPT ![f] = Append(@, Growth)]
       \/ source[f] # <<>> /\ source' = [source EXCEPT ![f] = UpTo(@, Len(@) - 1)]
       \/ source' = [source EXCEPT ![f] = Gone]
    /\ changes' = changes + 1
    /\ UNCHANGED <<job, sender, unsent, complete, receiverVars, link, up, down, before>>

\* build_archive, after the receiver accepted; a file that is gone fails it.
Build ==
    /\ sender = "asking"
    /\ LET reads == [i \in DOMAIN job.entries |-> source[job.entries[i].file]] IN
       IF \E i \in DOMAIN reads : reads[i] = Gone
       THEN sender' = "failed" /\ UNCHANGED <<job, unsent>>
       ELSE /\ sender' = "ready"
            /\ job' = [job EXCEPT !.data = reads]
            /\ unsent' = BuildArchive(job.entries, reads)
    /\ UNCHANGED <<source, changes, complete, receiverVars, link, up, down, before>>

SenderOnly == UNCHANGED <<source, changes, job, receiverVars, before>>

SendHead ==
    /\ sender = "ready"
    /\ IF link = "up" THEN up' = Append(up, HEAD) ELSE UNCHANGED up
    /\ sender' = IF link # "up" THEN "failed"
                 ELSE IF job.expect THEN "awaiting" ELSE "sending"
    /\ SenderOnly /\ UNCHANGED <<unsent, complete, link, down>>

\* The first reply must be 100 Continue.  No reply at all counts as one, and
\* the upload fails later.  Another sender waits for it no longer than it likes.
AwaitContinue ==
    /\ sender = "awaiting"
    /\ \/ /\ down # <<>>
          /\ down' = Tail(down)
          /\ sender' = IF Head(down) = "100" THEN "sending" ELSE "failed"
       \/ /\ down = <<>>
          /\ link # "up" \/ ~job.own
          /\ sender' = "sending"
          /\ UNCHANGED down
    /\ SenderOnly /\ UNCHANGED <<unsent, complete, link, up>>

Piece == UpTo(unsent, IF Len(unsent) < ChunkSize THEN Len(unsent) ELSE ChunkSize)

Chunk(cells) == <<Cell(Len(cells)), EOL>> \o cells \o <<EOL>>
LastChunk == <<"0", EOL, EOL>>

SendBody ==
    /\ sender = "sending"
    /\ link = "up"
    /\ Len(up) < Window
    /\ \/ /\ unsent # <<>>
          /\ up' = up \o (IF job.framing = "chunked" THEN Chunk(Piece) ELSE Piece)
          /\ unsent' = From(unsent, Len(Piece))
          /\ UNCHANGED <<sender, complete>>
       \/ /\ unsent = <<>>
          /\ up' = IF job.framing = "chunked" THEN up \o LastChunk ELSE up
          /\ sender' = "answering"
          /\ complete' = TRUE
          /\ UNCHANGED unsent
    /\ SenderOnly /\ UNCHANGED <<link, down>>

SendFails ==
    /\ sender = "sending"
    /\ link # "up"
    /\ sender' = "failed"
    /\ SenderOnly /\ UNCHANGED <<unsent, complete, link, up, down>>

\* Mutant: the end of the connection is taken for an answer.
EndIsAnswer ==
    /\ sender = "answering"
    /\ down # <<>> \/ link # "up"
    /\ down' = <<>>
    /\ sender' = "ok"
    /\ SenderOnly /\ UNCHANGED <<unsent, complete, link, up>>

\* read_http_response takes 200 and 100 for success; the end of the connection
\* before a head is an error.  Another sender skips a 100 it did not wait for.
HearAnswer ==
    /\ sender = "answering"
    /\ \/ /\ down # <<>>
          /\ down' = Tail(down)
          /\ sender' = IF ~job.own /\ Head(down) = "100" THEN "answering"
                       ELSE IF Head(down) \in {"200", "100"} THEN "ok" ELSE "failed"
       \/ /\ down = <<>> /\ link # "up"
          /\ sender' = "failed"
          /\ UNCHANGED down
    /\ SenderOnly /\ UNCHANGED <<unsent, complete, link, up>>

-----------------------------------------------------------------------------
(* The receiver *)

ReceiverOnly == UNCHANGED <<senderVars, before>>

\* Dropping the stream closes the connection.
Closed == link' = IF link = "up" THEN "closed" ELSE link

\* read_http_request up to the blank line, with any part of what follows it.
ReadHead ==
    /\ server = "head"
    /\ \/ /\ up # <<>>
          /\ \E n \in 1 .. Len(up) :
                pending' = SubSeq(up, 2, n) /\ up' = From(up, n)
          /\ server' = IF job.framing = "length" THEN "length" ELSE "handling"
          /\ UNCHANGED link
       \/ /\ up = <<>> /\ link # "up"
          /\ server' = "closed"
          /\ Closed
          /\ UNCHANGED <<pending, up>>
    /\ ReceiverOnly /\ UNCHANGED <<body, saved, disk, announced, down>>

\* With a Content-Length it goes on until the body is there, before the request
\* is looked at; a body that ends early is taken as it is, here and again in
\* read_fixed_body, and one that breaks off is an error.
ReadLength ==
    /\ server = "length"
    /\ \/ /\ Len(pending) >= job.length
          /\ pending' = UpTo(pending, job.length)
          /\ server' = "handling"
          /\ UNCHANGED <<link, up>>
       \/ /\ Len(pending) < job.length /\ up # <<>>
          /\ \E n \in 1 .. Len(up) :
                pending' = pending \o UpTo(up, n) /\ up' = From(up, n)
          /\ UNCHANGED <<server, link>>
       \/ /\ Len(pending) < job.length /\ up = <<>> /\ link # "up"
          /\ server' = IF link = "closed" THEN "handling" ELSE "closed"
          /\ Closed
          /\ UNCHANGED <<pending, up>>
    /\ ReceiverOnly /\ UNCHANGED <<body, saved, disk, announced, down>>

Failed ==
    /\ server' = "closed"
    /\ Closed
    /\ UNCHANGED <<pending, body, saved, disk, announced, up, down>>

Reply(code) == down' = IF link = "lost" THEN down ELSE Append(down, code)

\* read_fixed_body finds the body there already, or ended.
FixedBody == pending

\* Mutant: 100 Continue is only sent with the body read.
HandleContinuesLate ==
    /\ server = "handling"
    /\ job.cpio
    /\ server' = IF job.framing = "chunked" THEN "chunks" ELSE "opening"
    /\ body' = IF job.framing = "chunked" THEN <<>> ELSE FixedBody
    /\ UNCHANGED <<link, pending, up, down, saved, disk, announced>>
    /\ ReceiverOnly

\* handle_upload: another content type is refused, and who expects it is told to
\* continue.  A request without a length has its body in what came with the head.
Handle ==
    /\ server = "handling"
    /\ \/ /\ ~job.cpio
          /\ server' = "closed"
          /\ Reply("406")
          /\ Closed
          /\ UNCHANGED body
       \/ /\ job.cpio
          /\ IF job.expect THEN Reply("100") ELSE UNCHANGED down
          /\ server' = IF job.expect /\ link = "lost" THEN "closed"
                       ELSE IF job.framing = "chunked" THEN "chunks" ELSE "opening"
          /\ body' = IF job.framing = "chunked" THEN <<>> ELSE FixedBody
          /\ UNCHANGED link
    /\ UNCHANGED <<pending, up, saved, disk, announced>>
    /\ ReceiverOnly

Stream == pending \o up

\* Cells are taken from what was read before, then from the connection.
Take(n) ==
    /\ pending' = From(pending, n)
    /\ up' = IF n > Len(pending) THEN From(up, n - Len(pending)) ELSE up

\* Mutant: the end of the data is the end of the body.
CutOffIsTheEnd ==
    /\ server' = "opening"
    /\ UNCHANGED <<pending, body, saved, disk, announced, link, up, down>>

CutOff == Failed

\* ChunkedStreamReader: a line with the size, the data, and a line end; the
\* chunk of size 0 is the last, and the line end behind it is not insisted on.
\* Data that ends inside of a chunk is an error.
NextChunk ==
    LET ends == {i \in DOMAIN Stream : Stream[i] = EOL}
        eol == CHOOSE i \in ends : \A j \in ends : i <= j
        size == Number(UpTo(Stream, eol - 1))
        rest == Len(Stream) - eol
    IN
    /\ server = "chunks"
    /\ \/ /\ ends = {} /\ link # "up"
          /\ Failed
       \/ /\ ends # {} /\ ~(eol > 1 /\ IsNumber(UpTo(Stream, eol - 1)))
          /\ Failed
       \/ /\ ends # {} /\ eol > 1 /\ IsNumber(UpTo(Stream, eol - 1))
          /\ \/ /\ size = 0
                /\ rest >= 1 \/ link # "up"
                /\ Take(eol + (IF rest >= 1 THEN 1 ELSE 0))
                /\ server' = "opening"
                /\ UNCHANGED <<body, saved, disk, announced, link, down>>
             \/ /\ size > 0 /\ rest > size
                /\ body' = body \o SubSeq(Stream, eol + 1, eol + size)
                /\ Take(eol + size + 1)
                /\ UNCHANGED <<server, saved, disk, announced, link, down>>
             \/ /\ size > 0 /\ rest <= size /\ link # "up"
                /\ CutOff
    /\ ReceiverOnly

OpenArchive ==
    /\ server = "opening"
    /\ IF KnownFormat(body)
       THEN body' = Payload(body) /\ server' = "unpacking" /\ UNCHANGED link
       ELSE server' = "closed" /\ Closed /\ UNCHANGED body
    /\ UNCHANGED <<pending, saved, disk, announced, up, down>>
    /\ ReceiverOnly

\* The archive is unpacked record by record.  At its end what was saved is
\* announced and the upload answered 200; an error closes the connection without
\* an answer.
Unpack ==
    /\ server = "unpacking"
    /\ \E turn \in {ExtractTurn(body, saved, disk)} :
          /\ disk' = turn.disk
          /\ saved' = turn.saved
          /\ body' = turn.rest
          /\ IF turn.verdict = "more" THEN UNCHANGED <<server, link>>
                                     ELSE server' = "closed" /\ Closed
          /\ IF turn.verdict = "end" THEN announced' = turn.saved /\ Reply("200")
                                     ELSE UNCHANGED <<announced, down>>
    /\ UNCHANGED <<pending, up>>
    /\ ReceiverOnly

-----------------------------------------------------------------------------

\* The connection is lost, with any part of what is on its way; a foreign sender
\* may also give up in good form.
Break ==
    /\ link = "up"
    /\ sender \in {"awaiting", "sending", "answering"}
    /\ \/ /\ link' = "lost"
          /\ \E n \in 0 .. Len(up) : up' = UpTo(up, n)
          /\ down' = <<>>
          /\ UNCHANGED sender
       \/ /\ ~job.own
          /\ link' = "closed"
          /\ sender' = "failed"
          /\ down' = <<>>
          /\ UNCHANGED up
    /\ UNCHANGED <<source, changes, job, unsent, complete, receiverVars, before>>

SenderStep ==
    Collect \/ Build \/ SendHead \/ AwaitContinue \/ SendBody \/ SendFails \/ HearAnswer

ReceiverStep == ReadHead \/ ReadLength \/ Handle \/ NextChunk \/ OpenArchive \/ Unpack

UploadsNext ==
    \/ SenderStep
    \/ ReceiverStep
    \/ Break
    \/ \E f \in Files : FileChanges(f)

UploadsSpec == UploadsInit /\ [][UploadsNext]_uploadVars

UploadsFairness == WF_uploadVars(SenderStep) /\ WF_uploadVars(ReceiverStep)

-----------------------------------------------------------------------------
(* Properties *)

\* What the archive holds of an entry: as much as it announced, with zeros where
\* the file has become shorter.
Archived(i) ==
    LET size == job.entries[i].size IN UpTo(job.data[i] \o Pad(size, job.data[i]), size)

(* A sender that hears of success has its files in the receive folder, all *)
(* of them, in order, each with its data under its own path, and none over *)
(* another or over a file that was there, whatever the files did while the *)
(* receiver was asked and in whatever pieces the connection delivered      *)
(* (build_archive, post_upload_streamed, handle_upload, extract_cpio).     *)
OkMeansArrived ==
    sender = "ok" =>
        /\ Len(announced) = Len(job.entries)
        /\ \A i \in DOMAIN announced :
              /\ announced[i].name = Sanitize(job.entries[i].name)
              /\ disk[announced[i]] = Archived(i)
              /\ announced[i] \notin DOMAIN before
              /\ \A j \in DOMAIN announced : announced[i] = announced[j] => i = j

Fits(size) == Len(Digits[size]) <= SizeDigits

\* No entry needs a folder where the receiver has a file.
FoldersAreFree ==
    \A i \in DOMAIN job.entries :
        CanMakeFolders(before, UpTo(job.entries[i].name, Len(job.entries[i].name) - 1))

(* The upload of this program fails only for a reason: a file is gone, or  *)
(* has grown since it was measured, or is too large for its header, or the *)
(* receiver has a file where it needs a folder, or the connection is lost  *)
(* (send_files_inner, from collect_entries on).                            *)
GoodSendSucceeds ==
    sender = "failed" /\ job.own /\ job.data # <<>> =>
        \/ link = "lost"
        \/ ~FoldersAreFree
        \/ \E i \in DOMAIN job.entries :
              ~Fits(job.entries[i].size) \/ Len(job.data[i]) > job.entries[i].size

(* A chunked upload that breaks off leaves nothing behind and announces    *)
(* nothing: the folder only changes once the sender has sent the end of it *)
(* (read_chunked_body, handle_upload).                                     *)
BrokenUploadLeavesNothing ==
    job.framing = "chunked" /\ disk # before => complete

(* A comment of build_archive (airdrop_client.rs:346): "File changed while *)
(* reading; pad so the archive stays valid."  So a sender whose file has   *)
(* changed does not fail for it.                                           *)
ArchiveStaysValid ==
    sender = "failed" /\ job.own /\ job.data # <<>> =>
        \/ link = "lost"
        \/ ~FoldersAreFree
        \/ \E i \in DOMAIN job.entries : ~Fits(job.entries[i].size)

=============================================================================
