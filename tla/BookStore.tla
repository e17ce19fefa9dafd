----------------------------- MODULE BookStore -----------------------------
(***************************************************************************)
(* BookStorage, the flat file store of the books partition, and its two    *)
(* handles BookFile and BookUpload.  One management lease, one upload and   *)
(* the open readers exclude each other; a book appears under its name only *)
(* by the rename of a staging file that was written completely.            *)
(*                                                                         *)
(* A content is the sequence of its chunks, and a chunk is the attempt that *)
(* sent it: two attempts never send the same book.  Every operator gives   *)
(* the set of its outcomes, for the file system may fail.                  *)
(***************************************************************************)
EXTENDS Naturals, Sequences

CONSTANTS
    Books,          \* names of books
    Attempts,       \* uploads, told apart by who sends
    Chunks,         \* chunks of a whole book
    None

Whole(t) == [i \in 1..Chunks |-> t]
Contents == {None} \cup UNION {[1..n -> Attempts] : n \in 0..Chunks}

\* The store: the lease, the open handles, the books and the staging file.
Stores == [managing : BOOLEAN, uploading : BOOLEAN, readers : 0..1,
           files : [Books -> Contents], part : Contents]
EmptyStore == [managing |-> FALSE, uploading |-> FALSE, readers |-> 0,
               files |-> [n \in Books |-> None], part |-> None]

\* A BookUpload: owner_, received_, error_ and the open file_.
Uploads == [owner : BOOLEAN, open : BOOLEAN, name : Books \cup {None},
            received : 0..Chunks, error : BOOLEAN]
NoUpload == [owner |-> FALSE, open |-> FALSE, name |-> None, received |-> 0, error |-> FALSE]

\* BookWriteResult.  "late" is an ioError too, of a rename or a removal that took
\* effect although it failed: no caller can tell the two apart, and none does
\* here; only what is said of the outcome is judged by it.
Results == {"ok", "invalid", "busy", "exists", "notFound", "noSpace", "ioError", "late"}

-----------------------------------------------------------------------------
(* Seeded faults.                                                          *)

\* WholeBooks: the upload is written under its own name.
BeginUploadInPlace(b, u, n) ==
    IF u.owner \/ ~b.managing \/ b.uploading \/ b.readers > 0 THEN {<<"busy", b, u>>}
    ELSE IF b.files[n] # None THEN {<<"exists", b, u>>}
    ELSE {<<"ok", [b EXCEPT !.part = <<>>, !.files[n] = <<>>, !.uploading = TRUE],
            [owner |-> TRUE, open |-> TRUE, name |-> n, received |-> 0, error |-> FALSE]>>}

-----------------------------------------------------------------------------
(* The lease.                                                              *)

BeginManagement(b) ==
    IF b.managing \/ b.readers > 0 THEN {<<"busy", b>>}
    ELSE {<<"ioError", b>>, <<"ok", [b EXCEPT !.managing = TRUE, !.part = None]>>}

EndManagement(b) ==
    IF b.readers > 0 \/ b.uploading THEN <<"busy", b>>
    ELSE <<"ok", [b EXCEPT !.managing = FALSE]>>

-----------------------------------------------------------------------------
(* Readers.                                                                *)

\* OpenImpl: the reader of the terminal opens when nobody manages, the manager
\* only while it manages.
OpenFile(b, n, managed) ==
    IF b.managing # managed \/ b.uploading THEN {<<"busy", b>>}
    ELSE IF b.files[n] = None THEN {<<"notFound", b>>}
    ELSE {<<"ioError", b>>, <<"ok", [b EXCEPT !.readers = @ + 1]>>}

\* BookFile::Close of an open file.
CloseFile(b) == [b EXCEPT !.readers = IF @ > 0 THEN @ - 1 ELSE @]

-----------------------------------------------------------------------------
(* Uploads.                                                                *)

BeginUpload(b, u, n) ==
    IF u.owner \/ ~b.managing \/ b.uploading \/ b.readers > 0 THEN {<<"busy", b, u>>}
    ELSE IF b.files[n] # None THEN {<<"exists", b, u>>}
    ELSE {<<"noSpace", b, u>>, <<"ioError", b, u>>,
          <<"ok", [b EXCEPT !.part = <<>>, !.uploading = TRUE],
            [owner |-> TRUE, open |-> TRUE, name |-> n, received |-> 0, error |-> FALSE]>>}

\* A write that fails may have advanced the file; the handle stays failed.
WriteUpload(b, u, t) ==
    LET written == [b EXCEPT !.part = Append(@, t)]
    IN IF u.error THEN {<<"ioError", b, u>>}
       ELSE IF ~u.open \/ u.received = Chunks THEN {<<"invalid", b, u>>}
       ELSE {<<"ok", written, [u EXCEPT !.received = @ + 1]>>}
            \cup {<<r, bb, [u EXCEPT !.error = TRUE]>> :
                    r \in {"noSpace", "ioError"}, bb \in {b, written}}

CommitUpload(b, u) ==
    LET failed == [u EXCEPT !.error = TRUE]
    IN IF u.error THEN {<<"ioError", b, u>>}
       ELSE IF ~u.open \/ u.received # Chunks THEN {<<"invalid", b, u>>}
       ELSE {<<"ioError", b, failed>>, <<"noSpace", b, failed>>,
             <<"ioError", b, [failed EXCEPT !.open = FALSE]>>} \cup
            IF b.files[u.name] # None THEN {<<"exists", b, [failed EXCEPT !.open = FALSE]>>}
            ELSE {<<"ok", [b EXCEPT !.files[u.name] = b.part, !.part = None, !.uploading = FALSE],
                    [u EXCEPT !.open = FALSE, !.owner = FALSE]>>,
                  <<"late", [b EXCEPT !.files[u.name] = b.part, !.part = None],
                    [failed EXCEPT !.open = FALSE]>>}

\* BookUpload::Abort, and the destructor of an upload.
AbortUpload(b, u) ==
    <<IF u.owner THEN [b EXCEPT !.part = None, !.uploading = FALSE] ELSE b, NoUpload>>

RemoveBook(b, n) ==
    IF ~b.managing \/ b.uploading \/ b.readers > 0 THEN {<<"busy", b>>}
    ELSE IF b.files[n] = None THEN {<<"notFound", b>>}
    ELSE {<<"ioError", b>>} \cup {<<r, [b EXCEPT !.files[n] = None]>> : r \in {"ok", "late"}}

\* A power cut keeps the files and the staging file and nothing else.
PowerCut(b) == [b EXCEPT !.managing = FALSE, !.uploading = FALSE, !.readers = 0]
=============================================================================
