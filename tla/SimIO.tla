-------------------------------- MODULE SimIO --------------------------------
(***************************************************************************)
(* RIL_REQUEST_SIM_IO of the MBM u300 RIL (u300-ril-sim.c 242-275 and      *)
(* 465-979): requestSIM_IO, sendSimIOCmd with its AT+CRSM-then-AT+CGLA     *)
(* workaround, and the three caches kept in function-static variables:    *)
(*   - UiccType (getUICCType), the card type found by AT+CUAD;            *)
(*   - g_lc (simIOGetLogicalChannel), the logical channel opened once by  *)
(*     AT+CCHO;                                                            *)
(*   - cashed_path / cashed_fileid (simIOSelectPath), the file the RIL    *)
(*     believes is selected on that channel, so that selects are skipped. *)
(*                                                                         *)
(* Actors: the normal queueRunner, which runs one request at a time; the  *)
(* framework, which sends SIM_IO requests; the modem and its UICC, which  *)
(* answer AT commands, may answer ERROR or not at all (onATTimeout closes *)
(* the channel for the rest of the handler), and may be reset, closing    *)
(* every logical channel.  The radio is SIM_READY when a request runs, so *)
(* processRequest admits it.  The card is a USIM.                         *)
(***************************************************************************)
EXTENDS Integers, Sequences, TLC

CONSTANTS ReqFiles,     \* the EFs the framework reads
          MaxRequests,  \* bound on SIM_IO requests
          MaxErrors,    \* bound on AT commands answered ERROR
          MaxTimeouts,  \* bound on AT commands left unanswered
          MaxResets     \* bound on modem resets

VARIABLES UiccType, g_lc, cashed_path, cashed_fileid,  \* the statics
          pc, req, t1, t2, pos, err, sr, closed,         \* the handler
          answer,                                        \* the framework
          sel,                                           \* the UICC
          nRequests, nErrors, nTimeouts, nResets

statics  == <<UiccType, g_lc, cashed_path, cashed_fileid>>
handler  == <<pc, req, t1, t2, pos, err, sr, closed>>
counters == <<nRequests, nErrors, nTimeouts, nResets>>
vars     == <<statics, handler, answer, sel, counters>>

-----------------------------------------------------------------------------
(* The UICC's files: the MF, the USIM ADF the channel opens on, DF telecom *)
(* and three EFs, each with its parent, and a file selection per logical   *)
(* channel.  A SELECT by file id (ISO 7816-4) reaches the MF, a child of   *)
(* the current DF, the parent DF or a child of the parent DF.              *)
MF == \h3F00
Parent == (\h7FFF :> MF) @@ (\h7F10 :> MF) @@ (\h2FE2 :> MF)
          @@ (\h6F3A :> \h7F10) @@ (\h6F3B :> \h7F10) @@ (MF :> MF)
Files == DOMAIN Parent
DFs == {MF, \h7FFF, \h7F10}
EFs == Files \ DFs
Chans == {1, 2}
Closed == 0      \* the selection of a channel the card has not open

CurDF(s) == IF s \in DFs THEN s ELSE Parent[s]
Selectable(s, f) ==
  \/ f = MF
  \/ Parent[f] = CurDF(s) \/ f = Parent[CurDF(s)]
  \/ Parent[f] = Parent[CurDF(s)]

(* The path the framework gives with each EF (IccFileHandler's paths).     *)
PathOf(f) == IF Parent[f] = MF THEN <<MF>> ELSE <<MF, Parent[f]>>

Requests == [command : {"C0", "B0"}, fileid : ReqFiles]
NoReq == [command |-> "none", fileid |-> 0]

(* Status words as <<sw1, sw2>>; <<0, 0>> is the memset response.          *)
SW9000 == <<144, 0>>
SW6A82 == <<106, 130>>   \* file not found
SW6986 == <<105, 134>>   \* no current EF
NoSR == [sw |-> <<0, 0>>, file |-> 0, data |-> "none"]

(* The outcome of an AT round trip: the answer, an ERROR final response,   *)
(* no answer before the timeout (onATTimeout then closes the channel), or  *)
(* AT_ERROR_CHANNEL_CLOSED once it is closed.  Only "ok" carries an        *)
(* answer; a command that timed out may or may not have reached the card. *)
AtOutcomes ==
  IF closed THEN {"closed"}
  ELSE {"ok"} \cup (IF nErrors < MaxErrors THEN {"error"} ELSE {})
              \cup (IF nTimeouts < MaxTimeouts THEN {"timeout"} ELSE {})
Executed(o) == CASE o = "ok" -> {TRUE} [] o = "timeout" -> BOOLEAN
                 [] OTHER -> {FALSE}
Account(o) ==
  /\ nErrors' = nErrors + (IF o = "error" THEN 1 ELSE 0)
  /\ nTimeouts' = nTimeouts + (IF o = "timeout" THEN 1 ELSE 0)
  /\ closed' = (closed \/ o = "timeout")

Goto(l) == pc' = l
Fail == err' = -1 /\ Goto("reply")

-----------------------------------------------------------------------------
Init ==
  /\ UiccType = "UNKNOWN" /\ g_lc = 0
  /\ cashed_path = <<>> /\ cashed_fileid = 0
  /\ pc = "idle" /\ req = NoReq /\ t1 = "UNKNOWN" /\ t2 = "UNKNOWN"
  /\ pos = 0 /\ err = 0 /\ sr = NoSR /\ closed = FALSE
  /\ answer = [code |-> "none", req |-> NoReq, sr |-> NoSR]
  /\ sel = [c \in Chans |-> Closed]
  /\ nRequests = 0 /\ nErrors = 0 /\ nTimeouts = 0 /\ nResets = 0
-----------------------------------------------------------------------------
(* getUICCType: the cached type, or AT+CUAD: OK means USIM, an ERROR      *)
(* answer leaves UNKNOWN (asked again next time), and any err < 0 is taken *)
(* for a legacy SIM and stored.  t is the caller's local.                  *)
GetUICCType(t, next) ==
  /\ IF UiccType # "UNKNOWN"
       THEN /\ t' = UiccType
            /\ UNCHANGED <<UiccType, closed, nErrors, nTimeouts>>
       ELSE \E o \in AtOutcomes :
              LET ty == CASE o = "ok" -> "USIM" [] o = "error" -> "UNKNOWN"
                          [] OTHER -> "SIM"
              IN  /\ Account(o)
                  /\ UiccType' = ty /\ t' = ty
  /\ Goto(next)

(* The framework's request, taken by the runner once the channel is open. *)
Take(r) ==
  /\ pc = "idle" /\ ~closed
  /\ nRequests < MaxRequests
  /\ nRequests' = nRequests + 1
  /\ req' = r
  /\ Goto("type1")
  /\ UNCHANGED <<statics, t1, t2, pos, err, sr, closed, answer, sel, nErrors,
                 nTimeouts, nResets>>

(* requestSIM_IO's own getUICCType, then sendSimIOCmd's.                   *)
Type1 ==
  /\ pc = "type1" /\ GetUICCType(t1, "type2")
  /\ UNCHANGED <<g_lc, cashed_path, cashed_fileid, req, t2, pos, err, sr,
                 answer, sel, nRequests, nResets>>

Type2 ==
  /\ pc = "type2" /\ GetUICCType(t2, "crsm")
  /\ UNCHANGED <<g_lc, cashed_path, cashed_fileid, req, t1, pos, err, sr,
                 answer, sel, nRequests, nResets>>

(* sendSimIOCmdICC: AT+CRSM on the basic channel, where the modem selects  *)
(* the path itself and the card answers with the file or, for some files *)
(* (the FIXME of sendSimIOCmd), 6A82.  Then sendSimIOCmd's workaround:     *)
(* AT+CGLA is tried when the command failed or (as written) when sw1 is   *)
(* not 0x90 and sw2 not 0x00, unless the type is a legacy SIM.            *)
Crsm ==
  /\ pc = "crsm"
  /\ \E o \in AtOutcomes, sw \in {SW9000, SW6A82} :
       LET r == CASE o # "ok" -> NoSR
                  [] sw = SW9000 ->
                       [sw |-> sw, file |-> req.fileid,
                        data |-> IF req.command = "C0" THEN "fcp" ELSE "binary"]
                  [] OTHER -> [NoSR EXCEPT !.sw = sw]
           e == IF o = "ok" THEN 0 ELSE -1
       IN  /\ Account(o)
           /\ sr' = r /\ err' = e
           /\ IF (e < 0 \/ (r.sw[1] # 144 /\ r.sw[2] # 0)) /\ t2 # "SIM"
                THEN Goto("lc") ELSE Goto("reply")
  /\ UNCHANGED <<statics, req, t1, t2, pos, answer, sel, nRequests, nResets>>

(* simIOSelectPath's cache check: the selects are skipped when the file   *)
(* and path are the ones cached.                                           *)
CacheHitPathOnly(f, p) == p = cashed_path

CacheHit(f, p) == f = cashed_fileid /\ p = cashed_path

(* sendSimIOCmdUICC with a channel: clear sr, then simIOSelectPath.        *)
SelectPath ==
  /\ sr' = NoSR
  /\ IF CacheHit(req.fileid, PathOf(req.fileid))
       THEN Goto("cgla") /\ UNCHANGED pos
       ELSE pos' = 1 /\ Goto("sel_path")

(* simIOGetLogicalChannel: the cached g_lc, or AT+CUAD for the AID and     *)
(* AT+CCHO to open a channel on it.  A channel of 0 is -EIO.               *)
Lc ==
  /\ pc = "lc"
  /\ IF g_lc # 0
       THEN SelectPath /\ UNCHANGED <<closed, nErrors, nTimeouts, err>>
       ELSE \E o \in AtOutcomes :
              /\ Account(o)
              /\ IF o = "ok" THEN Goto("ccho") /\ UNCHANGED err ELSE Fail
              /\ UNCHANGED <<sr, pos>>
  /\ UNCHANGED <<statics, req, t1, t2, answer, sel, nRequests, nResets>>

(* The card opens the lowest free channel on the USIM ADF.                 *)
FreeChans == {c \in Chans : sel[c] = Closed}
NewChan == CHOOSE c \in FreeChans : \A d \in FreeChans : c <= d

Ccho ==
  /\ pc = "ccho"
  /\ \E o \in AtOutcomes : \E ex \in Executed(o) :
       LET opened == ex /\ FreeChans # {}
       IN  /\ Account(o)
           /\ sel' = IF opened THEN [sel EXCEPT ![NewChan] = \h7FFF] ELSE sel
           /\ IF o = "ok" /\ opened
                THEN g_lc' = NewChan /\ SelectPath /\ UNCHANGED err
                ELSE Fail /\ UNCHANGED <<g_lc, sr, pos>>
  /\ UNCHANGED <<UiccType, cashed_path, cashed_fileid, req, t1, t2, answer,
                 nRequests, nResets>>
(* simIOSelectFile(f): AT+CGLA=<g_lc>,14,"00A4000C02<f>".  The modem      *)
(* answers ERROR on a channel the card has closed; otherwise the card     *)
(* selects f if it can reach it (9000) and keeps its selection if not     *)
(* (6A82, which simIOSelectFile turns into -EIO).                          *)
CardSelect(ex, f) ==
  sel' = IF ex /\ sel[g_lc] # Closed /\ Selectable(sel[g_lc], f)
           THEN [sel EXCEPT ![g_lc] = f] ELSE sel

SelectOk(o, f) ==
  o = "ok" /\ sel[g_lc] # Closed /\ Selectable(sel[g_lc], f)

(* simIOSelectPath's loop over the 4-digit ids of the path; a failed      *)
(* select leaves through error: with the cache untouched.                  *)
SelPath ==
  /\ pc = "sel_path"
  /\ LET p == PathOf(req.fileid) IN
     \E o \in AtOutcomes : \E ex \in Executed(o) :
       /\ Account(o)
       /\ CardSelect(ex, p[pos])
       /\ CASE ~SelectOk(o, p[pos]) -> Fail /\ UNCHANGED pos
            [] pos = Len(p) -> Goto("sel_fid") /\ UNCHANGED <<pos, err>>
            [] OTHER -> pos' = pos + 1 /\ Goto("sel_path") /\ UNCHANGED err
  /\ UNCHANGED <<statics, req, t1, t2, sr, answer, nRequests, nResets>>

(* The select of the file itself, after which the path and the file    *)
(* id are copied into the cache whatever the select returned (the path is *)
(* shorter than cashed_path), and the error, if any, is returned.  The id *)
(* stored is a parameter, for the mutant below.                           *)
SelFidStore(id) ==
  /\ pc = "sel_fid"
  /\ \E o \in AtOutcomes : \E ex \in Executed(o) :
       /\ Account(o)
       /\ CardSelect(ex, req.fileid)
       /\ cashed_path' = PathOf(req.fileid)
       /\ cashed_fileid' = id
       /\ IF SelectOk(o, req.fileid) THEN Goto("cgla") /\ UNCHANGED err
                                     ELSE Fail
  /\ UNCHANGED <<UiccType, g_lc, req, t1, t2, pos, sr, answer, nRequests,
                 nResets>>

(* Mutant: the last id of the path loop (val) is cached as the file.      *)
SelFidCachesVal == SelFidStore(PathOf(req.fileid)[Len(PathOf(req.fileid))])

SelFid == SelFidStore(req.fileid)

(* The command itself on the logical channel.  GET RESPONSE (C0) is sent  *)
(* as SELECT "00A4000402<f>00", which selects f from the current file and  *)
(* returns its FCP; READ BINARY (B0) reads the current EF, or answers      *)
(* 6986 when a DF is selected.  The last four hex digits are sw1 sw2 and  *)
(* the rest is the response; an answer that is not OK is an error.        *)
Cgla ==
  /\ pc = "cgla"
  /\ \E o \in AtOutcomes : \E ex \in Executed(o) :
       LET cur  == sel[g_lc]
           open == cur # Closed
           hit  == IF req.command = "C0" THEN Selectable(cur, req.fileid)
                   ELSE cur \in EFs
           r    == CASE ~hit /\ req.command = "C0" -> [NoSR EXCEPT !.sw = SW6A82]
                     [] ~hit -> [NoSR EXCEPT !.sw = SW6986]
                     [] req.command = "C0" ->
                          [sw |-> SW9000, file |-> req.fileid, data |-> "fcp"]
                     [] OTHER -> [sw |-> SW9000, file |-> cur, data |-> "binary"]
       IN  /\ Account(o)
           /\ sel' = IF ex /\ open /\ hit /\ req.command = "C0"
                       THEN [sel EXCEPT ![g_lc] = req.fileid] ELSE sel
           /\ IF o = "ok" /\ open THEN sr' = r /\ err' = 0
                                  ELSE err' = -1 /\ UNCHANGED sr
  /\ Goto("reply")
  /\ UNCHANGED <<statics, req, t1, t2, pos, answer, nRequests, nResets>>

(* convertSimIoFcp: fcp_to_ts_51011 turns an FCP into the TS 51.011 GET   *)
(* RESPONSE form and fails on an empty or other response (no data).        *)
convertSimIoFcp(r) ==
  IF r.data = "fcp" THEN [r EXCEPT !.data = "ts51011"] ELSE NoSR

(* requestSIM_IO after sendSimIOCmd: GENERIC_FAILURE on an error; a GET    *)
(* RESPONSE on a card not typed legacy SIM (by its own getUICCType, t1)    *)
(* goes through convertSimIoFcp; then RIL_onRequestComplete.               *)
Reply ==
  /\ pc = "reply"
  /\ LET convert == req.command = "C0" /\ t1 # "SIM"
         out     == IF convert THEN convertSimIoFcp(sr) ELSE sr
         failed  == err < 0 \/ (convert /\ out.data = "none")
     IN  answer' = [code |-> IF failed THEN "GENERIC_FAILURE" ELSE "SUCCESS",
                    req |-> req, sr |-> IF failed THEN NoSR ELSE out]
  /\ Goto("idle")
  /\ req' = NoReq /\ t1' = "UNKNOWN" /\ t2' = "UNKNOWN" /\ pos' = 0
  /\ err' = 0 /\ sr' = NoSR
  /\ UNCHANGED <<statics, closed, sel, counters>>

(* The queueRunner reopens the AT channel after onATTimeout or a reset.    *)
Reopen ==
  /\ pc = "idle" /\ closed
  /\ closed' = FALSE
  /\ UNCHANGED <<statics, pc, req, t1, t2, pos, err, sr, answer, sel,
                 counters>>

(* The modem resets (or the SIM is re-powered): every logical channel is  *)
(* closed and the reader's EOF closes the AT channel.                      *)
Reset ==
  /\ nResets < MaxResets
  /\ nResets' = nResets + 1
  /\ sel' = [c \in Chans |-> Closed]
  /\ closed' = TRUE
  /\ UNCHANGED <<statics, pc, req, t1, t2, pos, err, sr, answer, nRequests,
                 nErrors, nTimeouts>>

Worker ==
  \/ Type1 \/ Type2 \/ Crsm \/ Lc \/ Ccho \/ SelPath \/ SelFid \/ Cgla
  \/ Reply \/ Reopen

Next == Worker \/ (\E r \in Requests : Take(r)) \/ Reset

(* The runner keeps running the handler it took; requests and resets may  *)
(* stop.                                                                   *)
Spec == Init /\ [][Next]_vars /\ WF_vars(Worker)

-----------------------------------------------------------------------------
TypeOK ==
  /\ UiccType \in {"UNKNOWN", "USIM", "SIM"} /\ g_lc \in {0} \cup Chans
  /\ cashed_path \in {<<>>} \cup {PathOf(f) : f \in EFs}
  /\ cashed_fileid \in {0} \cup EFs
  /\ req \in Requests \cup {NoReq} /\ pos \in 0..2 /\ err \in {-1, 0}
  /\ sel \in [Chans -> Files \cup {Closed}]
  /\ answer.code \in {"none", "SUCCESS", "GENERIC_FAILURE"}

(* A SIM_IO answered SUCCESS with status 9000 carries the file the         *)
(* framework asked for: the selects simIOSelectPath skips on a cache hit   *)
(* are skipped only when the card's selection on g_lc is still that file,  *)
(* across failed and unanswered selects, AT+CRSM on the basic channel and  *)
(* modem resets.                                                           *)
SimIoReadsRequestedFile ==
  (answer.code = "SUCCESS" /\ answer.sr.sw = SW9000)
    => answer.sr.file = answer.req.fileid

(* A GET RESPONSE answered SUCCESS on this USIM is in the TS 51.011 form   *)
(* Android's IccFileHandler parses (the conversion requestSIM_IO makes     *)
(* unless getUICCType says legacy SIM).                                    *)
GetResponseConverted ==
  (answer.code = "SUCCESS" /\ answer.req.command = "C0"
     /\ answer.sr.sw = SW9000)
    => answer.sr.data = "ts51011"

(* Between requests, with the AT channel open, the logical channel the     *)
(* RIL keeps in g_lc is one the card has open.                             *)
LogicalChannelOpen ==
  (pc = "idle" /\ ~closed /\ g_lc # 0) => sel[g_lc] # Closed
====
