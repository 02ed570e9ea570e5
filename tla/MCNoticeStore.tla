--------------------------- MODULE MCNoticeStore ---------------------------
(* NoticeStore with one id, two arrays and notices with different fields. *)
EXTENDS NoticeStore

MCId == {[uid |-> 1]}
MCRecord == {<< >>, [uid |-> 1, k |-> 1], [k |-> 2]}
MCFieldSeq == <<"inbox", "outbox">>
MCNotice == {[k |-> 1], [k |-> 2, m |-> 1]}
=============================================================================
