------------------------------ MODULE Reactions ------------------------------
(* Likes and dislikes, and the counts stored beside them.                    *)
(* Posts and comments (PostsService, CommentsService: toggleReaction) add to *)
(* their counts what changed; scam reports (ScamsService) count anew.        *)
(* UsersRepository.deleteUser takes a member's reactions out of the counts.  *)
(*                                                                           *)
(* READ COMMITTED: a transaction shows its writes when it commits, waits for *)
(* rows that another one wrote, and then looks at those rows again.  Targets *)
(* stay, and may be reacted to.                                              *)
EXTENDS Integers, FiniteSets

CONSTANTS Calls,                   \* clicks, each used once
          Members, Guests,         \* who clicks: a member, or a guest's address
          Posts, Comments, Scams,  \* what is reacted to
          None,
          Founding,                \* id of the reactions from before
          Best                     \* BEST_PROMOTION_LIKE_COUNT

ASSUME ReactionsAssumption ==
    /\ Best \in Nat \ {0} /\ Founding \notin Calls /\ None \notin Members \cup Guests
    /\ Posts \cap Comments = {} /\ (Posts \cup Comments) \cap Scams = {}

VARIABLES
    reactions,  \* the rows: id, who, target, type
    count,      \* like_count and dislike_count (upvote_count, downvote_count) of every target
    best,       \* posts.is_best
    call,       \* what each click knows
    leave,      \* what the removal of each member knows
    earned,     \* history: posts that Best people liked at once since an administrator last set
                \* or cleared their mark, and posts whose mark he set
    doubled,    \* history: who had two clicks on one target under way, and the target
    excused     \* history: targets whose count may differ from their rows, see CountsFollow

vars == <<reactions, count, best, call, leave, earned, doubled, excused>>

People == Members \cup Guests
Counted == Posts \cup Comments
Targets == Counted \cup Scams
Types == {"like", "dislike"}

Mine(w, ts) == {r \in reactions : r.who = w /\ r.target \in ts}
On(rows, t) == [y \in Types |-> Cardinality({r \in rows : r.target = t /\ r.type = y})]
Greatest(x, y) == IF x < y THEN y ELSE x
SameRow(r, s) == r.id = s.id /\ r.who = s.who /\ r.target = s.target

NewCall == [pc |-> "new", who |-> None, target |-> None, type |-> None, rows |-> {},
            counts |-> [y \in Types |-> 0], late |-> FALSE]
Over == [NewCall EXCEPT !.pc = "over"]

Init ==
    /\ \E one, two \in People, t, u \in Targets :
         reactions = {[id |-> Founding, who |-> one, target |-> t, type |-> "like"],
                      [id |-> Founding, who |-> two, target |-> u, type |-> "like"]}
    /\ count = [t \in Targets |-> On(reactions, t)]
    /\ best \in SUBSET Posts /\ earned = best
    /\ call = [c \in Calls |-> NewCall]
    /\ leave = [m \in Members |-> [pc |-> "here", rows |-> {}, late |-> {}]]
    /\ doubled = {} /\ excused = {}

Gone(w) == w \in Members /\ leave[w].pc = "gone"

\* posts whose row the removal of a member wrote
Locked == UNION {{r.target : r \in leave[m].rows} \cap Posts : m \in {m \in Members : leave[m].pc = "locked"}}

\* the removal of a member is under way, and it clicks on t
Late(w, t) ==
    leave' = IF w \in Members /\ leave[w].pc \in {"read", "locked"}
             THEN [leave EXCEPT ![w].late = @ \cup {t}] ELSE leave

-------------------------------------------------------------------------------
(* Posts and comments.                                                       *)

\* findUserReaction
Click(c, w, t, type) ==
    /\ call[c].pc = "new" /\ ~Gone(w)
    /\ call' = [call EXCEPT ![c] = [NewCall EXCEPT !.pc = "clicked", !.who = w, !.target = t, !.type = type,
                                                    !.rows = Mine(w, {t})]]
    /\ doubled' = IF \E d \in Calls : call[d].pc # "over" /\ call[d].who = w /\ call[d].target = t
                  THEN doubled \cup {<<w, t>>} ELSE doubled
    /\ UNCHANGED <<reactions, count, best, leave, earned, excused>>

Again(k) == \E r \in k.rows : r.type = k.type

\* deleteReaction: the row, whatever its type is by now
Removable(k) == {r \in reactions : \E s \in k.rows : SameRow(r, s)}
\* mutant: whatever its type is by now
ChangeableAny(k) == Removable(k)
\* updateReaction: the row, while it has the type it was read with
Changeable(k) == reactions \cap k.rows

\* mutant: the new reaction counts, with or without its row
Inserted(k, row) == {row}
\* createReaction: unless there is one, or the member is gone
Insertable(k, row) == IF Mine(k.who, {k.target}) = {} THEN {row} ELSE {}

Likes(t, d) == Greatest(count[t]["like"] + d["like"], 0)

\* applyReactionDelta: rows left and came
Applied(t, left, came, d) ==
    /\ reactions' = (reactions \ left) \cup came
    /\ count' = [count EXCEPT ![t] = [y \in Types |-> Greatest(@[y] + d[y], 0)]]
    /\ best' = IF t \in Posts /\ Likes(t, d) >= Best THEN best \cup {t} ELSE best
    /\ earned' = IF t \in Posts /\ On(reactions', t)["like"] >= Best THEN earned \cup {t} ELSE earned

Delta(type, n, other) == [y \in Types |-> IF y = type THEN n ELSE other]

\* the rest of the transaction: the same type again takes the reaction back, the other
\* one changes it, and the first one adds it.  A count changes when a row did
Toggle(c) ==
    LET k == call[c]
        row == [id |-> c, who |-> k.who, target |-> k.target, type |-> k.type]
    IN  /\ k.pc = "clicked" /\ k.target \in Counted \ Locked
        /\ call' = [call EXCEPT ![c] = Over]
        /\ Late(k.who, k.target) /\ UNCHANGED doubled
        /\ \/ /\ Again(k)
              /\ Applied(k.target, Removable(k), {}, Delta(k.type, -Cardinality(Removable(k)), 0))
              /\ excused' = IF Removable(k) \subseteq k.rows THEN excused ELSE excused \cup {k.target}
           \/ /\ k.rows # {} /\ ~Again(k)
              /\ LET n == Cardinality(Changeable(k))
                 IN  Applied(k.target, Changeable(k), {[r EXCEPT !.type = k.type] : r \in Changeable(k)},
                             Delta(k.type, n, -n))
              /\ UNCHANGED excused
           \/ /\ k.rows = {} /\ ~Gone(k.who)
              /\ Applied(k.target, {}, Insertable(k, row), Delta(k.type, Cardinality(Insertable(k, row)), 0))
              /\ UNCHANGED excused
           \/ /\ k.rows = {} /\ Gone(k.who)
              /\ UNCHANGED <<reactions, count, best, earned, excused>>

\* create, update: a site administrator sets or clears the mark, whatever the likes
SetBest(t, on) ==
    /\ t \notin Locked
    /\ best' = IF on THEN best \cup {t} ELSE best \ {t}
    /\ earned' = IF on THEN earned \cup {t} ELSE earned \ {t}
    /\ UNCHANGED <<reactions, count, call, leave, doubled, excused>>

-------------------------------------------------------------------------------
(* Scam reports: no key on the rows, and counts read before they are stored. *)

\* deleteAllReactionsByUser begins: the rows it sees are those it deletes
Sweep(c) ==
    LET k == call[c] IN
    /\ k.pc = "clicked" /\ k.target \in Scams
    /\ call' = [call EXCEPT ![c].pc = IF Again(k) THEN "taking" ELSE "giving", ![c].rows = Mine(k.who, {k.target})]
    /\ UNCHANGED <<reactions, count, best, leave, earned, doubled, excused>>

Holders == {c \in Calls : call[c].pc = "counted"}
Deletes(c) == reactions \cap call[c].rows

\* ... it waits for rows another call deletes; then the new row, if any, and the counts
Count(c) ==
    LET k == call[c]
        row == [id |-> c, who |-> k.who, target |-> k.target, type |-> k.type]
        came == IF k.pc = "giving" THEN {row} ELSE {}
    IN  /\ k.pc \in {"taking", "giving"} /\ ~(Gone(k.who) /\ came # {})
        /\ \A d \in Holders : Deletes(c) \cap Deletes(d) = {}
        /\ call' = [call EXCEPT ![c] = [k EXCEPT !.pc = "counted", !.rows = Deletes(c) \cup came,
                                                 !.counts = On((reactions \ Deletes(c)) \cup came, k.target)]]
        /\ UNCHANGED <<reactions, count, best, leave, earned, doubled, excused>>

\* ... with a SELECT for each: the dislikes may be counted after a change that the likes miss
CountDislikes(c) ==
    LET k == call[c]
        rows == (reactions \ k.rows) \cup {r \in k.rows : r.id = c}
    IN  /\ k.pc = "counted" /\ k.late
        /\ call' = [call EXCEPT ![c].counts = [@ EXCEPT !["dislike"] = On(rows, k.target)["dislike"]]]
        /\ UNCHANGED <<reactions, count, best, leave, earned, doubled, excused>>

\* counts read earlier on the target of a write by c are out of date
Overtaken(calls, ts) ==
    [d \in Calls |-> IF calls[d].pc = "counted" /\ calls[d].target \in ts THEN [calls[d] EXCEPT !.late = TRUE]
                     ELSE calls[d]]

\* the counts are stored, and the transaction commits
Store(c) ==
    LET k == call[c] IN
    /\ k.pc = "counted"
    /\ reactions' = (reactions \ k.rows) \cup {r \in k.rows : r.id = c}
    /\ count' = [count EXCEPT ![k.target] = k.counts]
    /\ call' = Overtaken([call EXCEPT ![c] = Over], {k.target})
    /\ excused' = IF k.late THEN excused \cup {k.target} ELSE excused \ {k.target}
    /\ UNCHANGED <<best, leave, earned, doubled>>

\* the insert fails, the transaction is rolled back, and the counts are read once more
Fail(c) ==
    LET k == call[c] IN
    /\ k.pc = "giving" /\ Gone(k.who)
    /\ call' = [call EXCEPT ![c] = [k EXCEPT !.pc = "counted", !.rows = {}, !.counts = On(reactions, k.target)]]
    /\ UNCHANGED <<reactions, count, best, leave, earned, doubled, excused>>

-------------------------------------------------------------------------------
(* deleteUser.                                                               *)

\* the first UPDATE reads the member's reactions to posts ...
ReadPosts(m) ==
    /\ leave[m].pc = "here"
    /\ leave' = [leave EXCEPT ![m] = [pc |-> "read", rows |-> Mine(m, Posts), late |-> {}]]
    /\ UNCHANGED <<reactions, count, best, call, earned, doubled, excused>>

\* ... and writes the posts; the second one reads those to comments ...
ReadComments(m) ==
    /\ leave[m].pc = "read"
    /\ {r.target : r \in leave[m].rows} \cap Locked = {}
    /\ leave' = [leave EXCEPT ![m].pc = "locked", ![m].rows = @ \cup Mine(m, Comments)]
    /\ UNCHANGED <<reactions, count, best, call, earned, doubled, excused>>

\* ... and writes the comments; the member is deleted, with every reaction it has by then,
\* when no click of its own holds one
Erase(m) ==
    LET rows == leave[m].rows IN
    /\ leave[m].pc = "locked"
    /\ ~\E d \in Holders : call[d].who = m /\ call[d].rows # {}
    /\ reactions' = reactions \ Mine(m, Targets)
    /\ count' = [t \in Targets |-> [y \in Types |-> Greatest(count[t][y] - On(rows, t)[y], 0)]]
    /\ call' = Overtaken(call, {r.target : r \in Mine(m, Scams)})
    /\ leave' = [leave EXCEPT ![m] = [pc |-> "gone", rows |-> {}, late |-> {}]]
    /\ excused' = excused \cup leave[m].late \cup {r.target : r \in Mine(m, Scams)}
    /\ UNCHANGED <<best, earned, doubled>>

-------------------------------------------------------------------------------
Next ==
    \/ \E c \in Calls :
         \/ \E w \in People, t \in Targets, type \in Types : Click(c, w, t, type)
         \/ Toggle(c) \/ Sweep(c) \/ Count(c) \/ CountDislikes(c) \/ Store(c) \/ Fail(c)
    \/ \E t \in Posts, on \in BOOLEAN : SetBest(t, on)
    \/ \E m \in Members : ReadPosts(m) \/ ReadComments(m) \/ Erase(m)

Spec == Init /\ [][Next]_vars

-------------------------------------------------------------------------------
(* Properties.                                                               *)

\* No count is ever negative, and the counts are those of the rows, for clicks of several
\* people and of one person at once (toggleReaction, applyReactionDelta, deleteUser).
\* Excused is the target
\*   - of a click with which a member took back a reaction that another click of theirs
\*     had changed meanwhile: deleteReaction does not ask for the type it was read with;
\*   - of a click of a member whose removal was under way;
\*   - if it is a scam report: when counts read before someone else's change were stored
\*     after it, or a member with a reaction to it left; the next click sets it right.
\* A post is among the best when as many people as that takes liked it together, since a site
\* administrator last ruled on its mark or because he set it: no click undoes a ruling early,
\* and none is lost from the promotion.
CountsFollow ==
    /\ \A t \in Targets, y \in Types : count[t][y] >= 0
    /\ \A t \in Targets \ excused :
         /\ count[t] = On(reactions, t)
         /\ t \in Posts => (t \in best <=> t \in earned)

\* Nobody has two reactions to one post or comment, however clicks overlap, and none to one
\* scam report unless two clicks of theirs on it were under way at once; and who was
\* removed has none, whatever they clicked meanwhile.
OneVoice ==
    /\ \A w \in People, t \in Targets :
         Cardinality(Mine(w, {t})) <= 1 \/ (t \in Scams /\ <<w, t>> \in doubled)
    /\ \A r \in reactions : r.who \in Members => leave[r.who].pc # "gone"

===============================================================================
