-------------------------------- MODULE MCVideos -------------------------------
(* YouTubeVideos with a channel of three videos, the later two published   *)
(* at the same time, that may get a fourth, and a video of another channel.*)
EXTENDS YouTubeVideos

MCVideo == 1..5
MCPublishedAt == <<1, 2, 3, 3, 4>>

Ask(op, v, f) == [op |-> op, video |-> v, field |-> f, all |-> FALSE, newest |-> TRUE]
Sync(all, newest) == [Ask("sync", 1, "title") EXCEPT !.all = all, !.newest = newest]

(* Two fields of one video, which is also read and forced, an update of a  *)
(* video of another channel, syncs in opposite orders.                     *)
MCRequest == {
    Ask("details", 2, "title"), Ask("force", 2, "title"),
    Ask("update", 2, "title"), Ask("update", 2, "privacy"),
    Ask("update", 1, "title"),
    Sync(TRUE, TRUE), Sync(FALSE, FALSE),
    Ask("list", 1, "title"), Ask("summary", 1, "title"),
    Ask("upload", 1, "title") }
===============================================================================
