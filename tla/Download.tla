------------------------------ MODULE Download ------------------------------
(***************************************************************************)
(* nlib/download.js: one transfer per listed row.  A transfer opens the    *)
(* file /crawler/downloads/<id>, sends the request and hands its outcome   *)
(* to a callback from three places -- the request's error event (line 26), *)
(* the file's finish event (line 20) and the file's error event (line 23)  *)
(* -- with nothing that stops a second call.  This module says which of    *)
(* those events Node can deliver in which order; Crawler.tla says what the *)
(* callback does.  No timeout is set on the request, so nothing obliges a  *)
(* transfer ever to leave the phases "get" and "body".  An error of the    *)
(* socket or of the file after the finish event is left out: by then all   *)
(* has been received and written.                                          *)
(*                                                                         *)
(* phase   "get"      request sent, no response yet                        *)
(*         "body"     response piped into the file                         *)
(*         "cut"      the socket failed in mid-body: the callback has had  *)
(*                    its error, the pipe still ends and closes the file   *)
(*         "unpiped"  writing the file failed: the callback has had its    *)
(*                    error, the request is still open                     *)
(***************************************************************************)
EXTENDS FiniteSets

CONSTANTS Urls, Batches

VARIABLES transfers,    \* the transfers in flight
          files         \* addresses whose file is in the download directory

Phases == {"get", "body", "cut", "unpiped"}

Transfer == [url : Urls, batch : Batches, phase : Phases]

Init == transfers = {} /\ files = {}

\* The file is created (or truncated) before anything is received.
download(S, b) ==
  /\ transfers' = transfers \cup {[url |-> u, batch |-> b, phase |-> "get"] : u \in S}
  /\ files' = files \cup S

Move(t, phase) == transfers' = (transfers \ {t}) \cup {[t EXCEPT !.phase = phase]}

End(t) == transfers' = transfers \ {t}

Response(t) ==
  /\ t.phase = "get"
  /\ Move(t, "body")
  /\ UNCHANGED files

\* callback(err), line 27.  In mid-body the response then ends early, so the
\* file's finish event is still to come.
RequestError(t) ==
  /\ \/ t.phase \in {"get", "unpiped"} /\ End(t)
     \/ t.phase = "body" /\ Move(t, "cut")
  /\ UNCHANGED files

\* callback(null, ...), line 21
FileFinish(t) ==
  /\ t.phase \in {"body", "cut"}
  /\ End(t)
  /\ UNCHANGED files

\* callback(err), line 24
FileError(t) ==
  /\ \/ t.phase = "body" /\ Move(t, "unpiped")
     \/ t.phase = "cut" /\ End(t)
  /\ UNCHANGED files

\* The request of an unpiped transfer ends without an error: no callback.
RequestEnd(t) ==
  /\ t.phase = "unpiped"
  /\ End(t)
  /\ UNCHANGED files

TypeOK == transfers \in SUBSET Transfer /\ files \in SUBSET Urls
=============================================================================
