----------------------------- MODULE HttpTransfer -----------------------------
(***************************************************************************)
(* httpGetFile as CDocDownTask sees it: the transfer, byte by byte, of     *)
(* HttpGet is one that DocDownload lets its worker make.                   *)
(*                                                                         *)
(* The worker is at the only document of its only task, which has an older *)
(* file; nothing else happens meanwhile.                                   *)
(***************************************************************************)
EXTENDS HttpGet

Document == [name |-> "document", version |-> "new", good |-> TRUE]

\* Has fopen_s succeeded?  The file is closed only once the buffer has been filled.
Opened == open \/ buffer # <<>>

\* Has httpGetFile come to its end, and not returned at once?
Complete == pc = "returned" /\ ~open /\ Opened

\* What the server sends: the document, or a page about an error.
Served == IF page THEN [state |-> "page", version |-> "none"]
          ELSE [state |-> "whole", version |-> "new"]

\* Is the body there, as its length says, and nothing else?
IsWhole == Complete /\ ret > 0 /\ file = [i \in 1 .. body |-> hdr + i]

\* The worker's header lasts until some of the body is written, or none is to come.
WorkerPc ==
  IF pc = "body"
  THEN IF file = <<>> /\ needRead > 0 THEN "header" ELSE "body"
  ELSE [start |-> "open", connect |-> "connect", header |-> "header", length |-> "header",
        catch |-> "header", returned |-> "check", undefined |-> "undefined"][pc]

\* What is in the file: a part is one that has no version of its own.
File ==
  IF ~Opened THEN [state |-> "whole", version |-> "old"]
  ELSE IF IsWhole THEN Served
  ELSE [state |-> IF file = <<>> THEN "empty" ELSE "partial", version |-> "none"]

Report == [doc |-> Document, status |-> IF ret > 0 THEN "success" ELSE "failure",
           fetched |-> Complete, file |-> File]

Download == INSTANCE DocDownload WITH
  Names <- {"document"}, Versions <- {"old", "new"}, Zero <- "none", Odd <- "odd",
  MaxDocs <- 1, MaxQueued <- 1, MaxRequests <- 0, MaxPublished <- 0, MaxRestarts <- 0,
  files <- [n \in {"document"} |-> File],
  published <- [n \in {"document"} |-> "new"],
  inUse <- {},
  leaked <- [n \in {"document"} |-> IF pc = "returned" /\ open THEN 1 ELSE 0],
  queue <- <<<<Document>>>>,
  pc <- WorkerPc,
  at <- IF pc = "returned" THEN 2 ELSE 1,
  last <- IF pc = "returned" THEN <<Report>> ELSE <<>>,
  serving <- Served,
  cut <- IF Complete /\ ~IsWhole THEN {"document"} ELSE {},
  left <- [what \in {"request", "publish", "restart"} |-> 0]

downloadVars == Download!vars

\* Each step of httpGetFile is one that DocDownload has for it, or none: where it may
\* be cut, what is then in the file, which handles are left and what is reported, are
\* what DocDownload says of a document.
TransferIsAsAssumed ==
  [][\/ Download!Open
     \/ Download!Connect
     \/ Download!Header
     \/ Download!Body]_downloadVars
==============================================================================
