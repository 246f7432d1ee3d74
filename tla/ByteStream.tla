----------------------------- MODULE ByteStream -----------------------------
(***************************************************************************)
(* What a transport's read side promises its protocol: the chunks the peer *)
(* sent, each once, in order, and the end of the stream after the last of  *)
(* them; nothing while reading is paused or after the transport closed.    *)
(***************************************************************************)
EXTENDS Naturals, Sequences

VARIABLES
    sent,       \* chunks the peer has sent so far: 1, 2, ..., sent
    finished,   \* the peer has shut down its side
    got,        \* chunks the protocol has received, in order
    ended,      \* the protocol has been told of the end
    reading,    \* pause_reading / resume_reading
    open

vars == <<sent, finished, got, ended, reading, open>>

Init ==
    /\ sent = 0 /\ finished = FALSE
    /\ got = <<>> /\ ended = FALSE
    /\ reading = TRUE /\ open = TRUE

Send ==
    /\ ~finished /\ sent' = sent + 1
    /\ UNCHANGED <<finished, got, ended, reading, open>>

Finish ==
    /\ finished' = TRUE
    /\ UNCHANGED <<sent, got, ended, reading, open>>

Deliver ==
    /\ open /\ reading /\ Len(got) < sent
    /\ got' = Append(got, Len(got) + 1)
    /\ UNCHANGED <<sent, finished, ended, reading, open>>

End ==
    /\ open /\ reading /\ finished /\ Len(got) = sent
    /\ ended' = TRUE
    /\ UNCHANGED <<sent, finished, got, reading, open>>

Pause ==
    /\ open /\ reading /\ reading' = FALSE
    /\ UNCHANGED <<sent, finished, got, ended, open>>

Resume ==
    /\ open /\ ~reading /\ reading' = TRUE
    /\ UNCHANGED <<sent, finished, got, ended, open>>

Close ==
    /\ open /\ open' = FALSE
    /\ UNCHANGED <<sent, finished, got, ended, reading>>

Next == Send \/ Finish \/ Deliver \/ End \/ Pause \/ Resume \/ Close

Spec == Init /\ [][Next]_vars
=============================================================================
