------------------------------ MODULE MCTransfers ----------------------------
(***************************************************************************)
(* Uploads, WebDropPost and Drops on a small instance.  They share no      *)
(* variable, so a behaviour is of one side.                                *)
(*                                                                         *)
(* "archive": two of three files are sent, two of one name or one in a     *)
(* folder; one is too large for the size field, one is gone, and one       *)
(* changes.  Foreign senders use newc, with and without chunks.  The       *)
(* receiver has a file of the same name, or one where a folder is needed.  *)
(*                                                                         *)
(* "post": a browser's request to Web Drop.  "drops": three files dropped  *)
(* on the window and one picked in a dialog.                               *)
(***************************************************************************)
EXTENDS Uploads, WebDropPost, Drops

CONSTANT Sides

VARIABLE side

MCInit ==
    /\ side \in Sides
    /\ IF side = "archive" THEN UploadsInit ELSE UploadsIdle
    /\ IF side = "post" THEN PostInit ELSE PostIdle
    /\ DropsInit

MCNext ==
    /\ UNCHANGED side
    /\ \/ side = "archive" /\ UploadsNext /\ UNCHANGED <<postVars, dropVars>>
       \/ side = "post" /\ PostNext /\ UNCHANGED <<uploadVars, dropVars>>
       \/ side = "drops" /\ DropsNext /\ UNCHANGED <<uploadVars, postVars>>

\* Each fairness asks for nothing where its side is idle.
MCSpec ==
    /\ MCInit /\ [][MCNext]_<<side, uploadVars, postVars, dropVars>>
    /\ UploadsFairness /\ PostFairness /\ DropsFairness

\* The types of all three.
TypeOK == UploadsTypeOK /\ PostTypeOK /\ DropsTypeOK

(* An upload ends for its sender and for its receiver, also when the        *)
(* connection breaks (post_upload_streamed has no timeout); every request   *)
(* of a browser is answered, or closed when the browser is gone before it   *)
(* was read (WebDropServer's handle_connection; fill stops at the end).     *)
RequestsEnd ==
    /\ <>(sender \in {"ok", "failed"} /\ (server = "closed" \/ link = "up"))
    /\ <>(reader = "closed")

CONSTANTS f1, f2, f3, d1, d2, d3

\* Two files of one name, one of them in a folder with another whose name
\* Windows refuses.
MCRel == f1 :> <<"set", "a:">> @@ f2 :> <<"b">> @@ f3 :> <<"b">>

Item(folder, ofFiles) == [folder |-> folder, files |-> ofFiles]

MCSelections == {<<Item(TRUE, {f1}), Item(FALSE, {f2})>>, <<Item(FALSE, {f2}), Item(FALSE, {f3})>>}

MCSources == {f1 :> <<"x", "y">> @@ f2 :> <<"y">> @@ f3 :> <<"x">>,
              f1 :> <<>> @@ f2 :> <<"x", "y", "x", "y">> @@ f3 :> Gone,
              f1 :> Gone @@ f2 :> <<>> @@ f3 :> <<"y", "x">>}

MCClean == ("a:" :> "a_")

\* newc_record of the tests.
NewcRecord(name, mode, data) ==
    LET head == <<Newc, mode>> \o Field(Len(name) + 1, NameDigits)
                    \o Field(Len(data), SizeDigits) \o name \o <<NUL>>
    IN head \o Zeros(PadOf(Len(head))) \o data \o Zeros(PadOf(Len(data)))

NewcBody(entries, data) ==
    NewcRecord(<<".", "set">>, "dir", <<>>)
    \o FlattenSeq([i \in DOMAIN entries |-> NewcRecord(<<".">> \o entries[i].name, "file", data[i])])
    \o NewcRecord(Trailer, "none", <<>>)

ForeignEntries == <<[name |-> <<"set", "c">>, size |-> 1], [name |-> <<"b">>, size |-> 2]>>
ForeignData == <<<<"z">>, <<"x", "y">>>>

ForeignUpload(framing, expect, cpio) ==
    [framing |-> framing, expect |-> expect, cpio |-> cpio,
     entries |-> ForeignEntries, data |-> ForeignData,
     body |-> NewcBody(ForeignEntries, ForeignData)]

MCForeign == {ForeignUpload("length", TRUE, TRUE), ForeignUpload("length", FALSE, TRUE),
              ForeignUpload("chunked", FALSE, TRUE), ForeignUpload("chunked", TRUE, FALSE)}

MCFolders0 == {<<>>, (At(<<"b">>, 0) :> <<"old">>), (At(<<"set">>, 0) :> <<"old">>)}

Part(field, filename, data) == [field |-> field, filename |-> filename, data |-> data]

\* Data that begins like a delimiter, an empty file, a name that is a path.
MCRequests ==
    {[path |-> p, valid |-> TRUE, parts |-> <<>>] : p \in {"page", "favicon", "unknown", "upload"}}
    \cup {[path |-> "upload", valid |-> v, parts |->
             <<Part("device_id", "none", <<"i">>),
               Part("files", "d/s", <<CRLF, Dashes, "x", CRLF>>),
               Part("files", "", <<>>),
               Part("files", "t", <<>>)>>] : v \in BOOLEAN}
    \cup {[path |-> "upload", valid |-> TRUE, parts |->
             <<Part("device_label", "none", <<"i", "i", "i">>),
               Part("files", "t", <<"x">>)>>]}

MCLeaf == ("d/s" :> "s") @@ ("t" :> "t")

=============================================================================
