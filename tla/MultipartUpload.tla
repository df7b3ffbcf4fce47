--------------------------- MODULE MultipartUpload ---------------------------
(***************************************************************************)
(* A file that goes up in parts: upload_file of run.rs, and the handlers   *)
(* of uploads.rs.  Parts wait as rows of a table without a unique key; the *)
(* handler of finishMultiPartUpload reads them in one step, writes the     *)
(* file part by part, and then deletes the rows.  Parts may be sent at the *)
(* same time, as the older client does.  Uploads are cut short by a client *)
(* that gives up, whose handlers then finish late, by a handler that fails, *)
(* and by a crash; whoever asks again is told to send the file again.      *)
(*                                                                         *)
(* The content is 0, 1, ... Length-1: a byte is its offset.                *)
(***************************************************************************)
EXTENDS Integers, Sequences, SequencesExt

CONSTANTS Length,        \* of the file's content
          ChunkSize,     \* CHUNK_SIZE_BYTES, scaled down
          MaxAttempts    \* bound on how often the file is uploaded

ASSUME PartsAssumption ==
    Length \in Nat \ {0} /\ ChunkSize \in Nat \ {0} /\ MaxAttempts \in Nat

Content  == [i \in 1 .. Length |-> i - 1]
Absent   == <<-1>>
Attempts == 1 .. MaxAttempts

\* chunk_starts
ChunkStarts(length) == {n \in 0 .. length - 1 : n % ChunkSize = 0}

\* The part that starts at an offset.
Chunk(start) ==
    SubSeq(Content, start + 1, IF start + ChunkSize < Length THEN start + ChunkSize ELSE Length)

VARIABLES attempt,     \* uploads begun
          client,      \* "idle", "parts", "finishing" or "done"
          unsent,      \* parts the client has not sent
          inFlight,    \* parts sent and not stored: <<attempt, start>>
          rows,        \* deployment_pending_multi_part_file_chunk
          needed,      \* the row of deployment_needed_file
          finish,      \* finish handlers, by attempt: where they are, what they read
          file,        \* the file on disk
          leftover,    \* rows of an earlier upload were there when this one began
          overlapped,  \* an upload began while calls of an earlier one were served
          stuck,       \* a previous copy could not be removed
          trimmed      \* database_cleanup took rows

disturbances == <<leftover, overlapped, stuck, trimmed>>
partsVars == <<attempt, client, unsent, inFlight, rows, needed, finish, file, disturbances>>

NoFinish == [at |-> "none", chunks |-> <<>>]

PartsInit ==
    /\ attempt = 0 /\ client = "idle" /\ unsent = {} /\ inFlight = {}
    /\ rows = <<>> /\ needed = TRUE
    /\ finish = [a \in Attempts |-> NoFinish]
    /\ file \in {Absent, <<Length>>}            \* or an older version of it
    /\ leftover = FALSE /\ overlapped = FALSE /\ stuck = FALSE /\ trimmed = FALSE

\* Calls of the file's uploads are being served.
BeingServed == inFlight # {} \/ \E a \in Attempts : finish[a].at # "none"

\* getNeededFiles names the file, as its content is not the one wanted.
\* startMultiPartUpload does nothing on the server.
StartUpload ==
    /\ client \in {"idle", "done"} /\ attempt < MaxAttempts /\ file # Content
    /\ attempt' = attempt + 1 /\ client' = "parts"
    /\ unsent' = ChunkStarts(Length)
    /\ needed' = TRUE
    /\ leftover' = (rows # <<>>)
    /\ overlapped' = (overlapped \/ BeingServed)
    /\ UNCHANGED <<inFlight, rows, finish, file, stuck, trimmed>>

SendPart(start) ==
    /\ client = "parts" /\ start \in unsent
    /\ unsent' = unsent \ {start}
    /\ inFlight' = inFlight \cup {<<attempt, start>>}
    /\ UNCHANGED <<attempt, client, rows, needed, finish, file, disturbances>>

\* upload_file_part: one insert.
StorePart(part) ==
    /\ part \in inFlight
    /\ inFlight' = inFlight \ {part}
    /\ rows' = Append(rows, part[2])
    /\ UNCHANGED <<attempt, client, unsent, needed, finish, file, disturbances>>

\* All parts are answered.
SendFinish ==
    /\ client = "parts" /\ unsent = {} /\ ~\E p \in inFlight : p[1] = attempt
    /\ client' = "finishing"
    /\ finish' = [finish EXCEPT ![attempt].at = "sent"]
    /\ UNCHANGED <<attempt, unsent, inFlight, rows, needed, file, disturbances>>

\* Variant: chunks are written in the order they were stored.
InOrderAsStored(chunks) == chunks

\* sort_by_key, by the start: parts of the same start are the same.
Ascends(chunks) == \A i, j \in DOMAIN chunks : i < j => chunks[i] <= chunks[j]
Arranged(chunks, order) == [i \in DOMAIN chunks |-> chunks[order[i]]]
InOrder(chunks) ==
    Arranged(chunks, CHOOSE order \in Bijection(DOMAIN chunks, DOMAIN chunks) :
                         Ascends(Arranged(chunks, order)))

\* finish_multipart_upload: the rows are read, the lock is given back.
ReadRows(a) ==
    /\ finish[a].at = "sent"
    /\ finish' = [finish EXCEPT ![a] = [at |-> "read", chunks |-> InOrder(rows)]]
    /\ UNCHANGED <<attempt, client, unsent, inFlight, rows, needed, file, disturbances>>

\* Any previous copy is removed, and a new file created; or it stays, for what the
\* removal answers is not looked at, and is appended to.
Truncate(a) ==
    /\ finish[a].at = "read"
    /\ \/ file' = <<>> /\ stuck' = stuck
       \/ file # Absent /\ file' = file /\ stuck' = TRUE
    /\ finish' = [finish EXCEPT ![a].at = "write"]
    /\ UNCHANGED <<attempt, client, unsent, inFlight, rows, needed, leftover, overlapped, trimmed>>

AppendChunk(a) ==
    /\ finish[a].at = "write" /\ finish[a].chunks # <<>>
    /\ file' = file \o Chunk(Head(finish[a].chunks))
    /\ finish' = [finish EXCEPT ![a].chunks = Tail(@)]
    /\ UNCHANGED <<attempt, client, unsent, inFlight, rows, needed, disturbances>>

DeleteRows(a) ==
    /\ finish[a].at = "write" /\ finish[a].chunks = <<>>
    /\ rows' = <<>>
    /\ finish' = [finish EXCEPT ![a].at = "stored"]
    /\ UNCHANGED <<attempt, client, unsent, inFlight, needed, file, disturbances>>

Received(a) == finish[a].at = "stored"

\* The file is no longer needed, and the call is answered.
DeleteNeeded(a) ==
    /\ Received(a)
    /\ needed' = FALSE
    /\ finish' = [finish EXCEPT ![a] = NoFinish]
    /\ client' = IF a = attempt /\ client = "finishing" THEN "done" ELSE client
    /\ UNCHANGED <<attempt, unsent, inFlight, rows, file, disturbances>>

\* A statement or a write of the handler fails, and the call is answered so.
FinishFails(a) ==
    /\ finish[a].at # "none"
    /\ finish' = [finish EXCEPT ![a] = NoFinish]
    /\ client' = IF a = attempt /\ client = "finishing" THEN "idle" ELSE client
    /\ file' \in {file} \cup (IF finish[a].at = "read" THEN {Absent} ELSE {})
    /\ UNCHANGED <<attempt, unsent, inFlight, rows, needed, disturbances>>

\* The client stops, as a call failed or it waits no longer; what it sent goes on.
GiveUp ==
    /\ client \in {"parts", "finishing"}
    /\ client' = "idle" /\ unsent' = {}
    /\ UNCHANGED <<attempt, inFlight, rows, needed, finish, file, disturbances>>

\* Rows and files persist.
ServerCrashes ==
    /\ client \in {"parts", "finishing"} \/ BeingServed
    /\ client' = IF client = "done" THEN "done" ELSE "idle"
    /\ unsent' = {} /\ inFlight' = {}
    /\ finish' = [a \in Attempts |-> NoFinish]
    /\ UNCHANGED <<attempt, rows, needed, file, disturbances>>

\* Another deploy's database_cleanup finds this deployment more than 4 hours old.
CleanUp ==
    /\ rows' = <<>> /\ needed' = FALSE /\ trimmed' = TRUE
    /\ UNCHANGED <<attempt, client, unsent, inFlight, finish, file, leftover, overlapped, stuck>>

PartsNext ==
    \/ StartUpload \/ SendFinish \/ GiveUp \/ ServerCrashes \/ CleanUp
    \/ \E s \in ChunkStarts(Length) : SendPart(s)
    \/ \E p \in inFlight : StorePart(p)
    \/ \E a \in Attempts :
          ReadRows(a) \/ Truncate(a) \/ AppendChunk(a) \/ DeleteRows(a) \/ DeleteNeeded(a)
          \/ FinishFails(a)

PartsSpec == PartsInit /\ [][PartsNext]_partsVars

-----------------------------------------------------------------------------
PartsTypeOK ==
    /\ attempt \in 0 .. MaxAttempts
    /\ client \in {"idle", "parts", "finishing", "done"}
    /\ unsent \subseteq ChunkStarts(Length)
    /\ inFlight \subseteq Attempts \X ChunkStarts(Length)
    /\ rows \in Seq(ChunkStarts(Length))
    /\ finish \in [Attempts -> [at : {"none", "sent", "read", "write", "stored"},
                               chunks : Seq(ChunkStarts(Length))]]
    /\ needed \in BOOLEAN /\ leftover \in BOOLEAN /\ overlapped \in BOOLEAN
    /\ stuck \in BOOLEAN /\ trimmed \in BOOLEAN

(* No upload ran into another's calls, and nothing went wrong with the copy   *)
(* on disk or with the rows but what stops a handler or the server.           *)
Undisturbed == ~overlapped /\ ~stuck /\ ~trimmed

(* The server stops asking for a file only when it is whole: every byte once  *)
(* and in its place, whatever order the parts came in, whatever was on disk   *)
(* before, and wherever a handler or the server stopped.  Uploads that were   *)
(* cut short before do no harm, unless they left parts behind.                *)
ReceivedIsWhole == ~needed /\ Undisturbed /\ ~leftover => file = Content

\* A part ends at the byte.
EndsPart(byte) == byte + 1 = Length \/ (byte + 1) % ChunkSize = 0

\* From one byte to the next; after the end of a part it may come again.
Stepwise(f) ==
    \A i \in 1 .. Len(f) - 1 :
        \/ f[i + 1] = f[i] + 1
        \/ EndsPart(f[i]) /\ f[i + 1] = f[i] - (f[i] % ChunkSize)

\* All bytes in order, and none that is not the content's.
EveryByte(f) == f # <<>> /\ f[1] = 0 /\ Stepwise(f) /\ f[Len(f)] = Length - 1

(* The parts that an upload left behind are taken together with those of the  *)
(* next.  Even so no byte is missing or out of order when the server stops    *)
(* asking; at worst a part is there again, right after itself, and the        *)
(* verification's hash tells.                                                 *)
RetriedHasEveryByte == ~needed /\ Undisturbed => EveryByte(file)

(* An upload that was answered leaves no part behind for a later one, nor     *)
(* what earlier ones had left.                                                *)
AnsweredLeavesNoParts == client = "done" /\ ~overlapped => rows = <<>> /\ inFlight = {}

(* Parts make the file, and leave nothing else behind.                        *)
PartsMakeTheFile == PartsTypeOK /\ ReceivedIsWhole /\ RetriedHasEveryByte /\ AnsweredLeavesNoParts

=============================================================================
