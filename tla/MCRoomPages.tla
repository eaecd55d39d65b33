---------------------------- MODULE MCRoomPages -----------------------------
(* RoomPages with one folder.  Queries do not depend on each other beyond  *)
(* what the page mounts, so those of one kind are watched for their timing *)
(* in one member.                                                          *)
EXTENDS RoomPages, TLC

Watched == {FilesKey(Root, FALSE), FoldersKey, MembersKey, RoomsKey}

\* Bound: a query not watched is answered before anything else happens.
Prompt ==
  LET asked == {k \in Keys \ Watched : cache[k].asked # None}
      k == CHOOSE l \in asked : TRUE
  IN  asked # {} => /\ cache'[k].asked = None
                    /\ Answers(k) # {} => ~cache'[k].failed

\* Bound: two writes, or one beside a failed fetch or a preview.
Focus == Cardinality({k \in Keys : cache[k].failed}) + Len(preview) + Len(write) <= 2
=============================================================================
