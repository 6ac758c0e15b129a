--------------------------- MODULE ReplyContract ---------------------------
(***************************************************************************)
(* What every provider promises the client of a generation request,        *)
(* whatever the frames of its protocol are: one status, and then either a  *)
(* whole reply or a stream that hands over the text piece by piece.  The   *)
(* stream is marked complete exactly when the whole text was sent, and a   *)
(* failure is told to the client in the stream.  Only a client that has    *)
(* gone may see it cut off without a word.                                 *)
(***************************************************************************)
EXTENDS Naturals, Sequences

VARIABLES phase,   (* "waiting", "whole", "streaming", "complete", "failed", "cut" *)
          status,  (* the status line, 0 while there is none               *)
          text,    (* [chunks, fails]: what the source will produce        *)
          sent,    (* how many chunks have been sent                       *)
          alive    (* the client is still there                            *)

rvars == <<phase, status, text, sent, alive>>

ReplyInit ==
  /\ phase = "waiting" /\ status = 0 /\ sent = 0
  /\ alive = TRUE

ClientGoes == alive' = FALSE /\ UNCHANGED <<phase, status, text, sent>>

(* The source of the text is settled while the client waits.               *)
Choose ==
  /\ phase = "waiting" /\ phase' = "waiting"
  /\ UNCHANGED <<status, sent, alive>>

Whole ==
  /\ phase = "waiting"
  /\ phase' = "whole"
  /\ status' # 0
  /\ UNCHANGED <<sent, alive>>

(* The first frame: a preamble, the first chunk, or an end or failure at   *)
(* once.                                                                   *)
Begin ==
  /\ phase = "waiting"
  /\ status' = 200
  /\ sent' \in {0, 1}
  /\ \/ phase' = "streaming"
     \/ phase' = "complete" /\ sent' = Len(text.chunks) /\ ~text.fails
     \/ phase' = "failed"   /\ (text.fails \/ ~alive)
     \/ phase' = "cut"      /\ ~alive
  /\ UNCHANGED <<text, alive>>

Send ==
  /\ phase = "streaming" /\ phase' \in {"streaming", "complete"}
  /\ sent < Len(text.chunks) /\ sent' = sent + 1
  /\ phase' = "complete" => sent' = Len(text.chunks) /\ ~text.fails
  /\ UNCHANGED <<status, text, alive>>

Complete ==
  /\ phase = "streaming" /\ phase' = "complete"
  /\ sent = Len(text.chunks) /\ ~text.fails
  /\ UNCHANGED <<status, text, sent, alive>>

Fail ==
  /\ phase = "streaming" /\ phase' = "failed"
  /\ text.fails \/ ~alive
  /\ UNCHANGED <<status, text, sent, alive>>

CutOff ==
  /\ phase = "streaming" /\ phase' = "cut"
  /\ ~alive
  /\ UNCHANGED <<status, text, sent, alive>>

ReplyNext == ClientGoes \/ Choose \/ Whole \/ Begin \/ Send \/ Complete \/ Fail \/ CutOff
ReplySpec == ReplyInit /\ [][ReplyNext]_rvars
=============================================================================
