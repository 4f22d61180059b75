------------------------------- MODULE Recent -------------------------------
(***************************************************************************)
(* The list of recent peers (app/lib/core/recent.dart).  The list is       *)
(* loaded asynchronously when it is first looked at; touch, rename and     *)
(* remove change it at once and save it later: _save takes the list as it  *)
(* is when the preferences are there.  SharedPreferences is one value      *)
(* that setString replaces.                                                *)
(***************************************************************************)
EXTENDS Naturals, Sequences, SequencesExt

CONSTANTS
  Token,
  maxItems,   \* 20 in the code
  MaxEdits,   \* bound: how often the user renames or removes
  Kept        \* the lists an earlier run of the app may have saved

Peer == [token : Token, alias : BOOLEAN]
Tokens(ps) == {p.token : p \in ToSet(ps)}
NoDuplicate(ps) == \A i, j \in DOMAIN ps : ps[i].token = ps[j].token => i = j

ASSUME RecentBounds == maxItems \in Nat \ {0} /\ MaxEdits \in Nat
ASSUME KeptLists == \A ps \in Kept : ps \in Seq(Peer) /\ Len(ps) <= maxItems /\ NoDuplicate(ps)

VARIABLES
  peers,     \* state: most recent first
  stored,    \* the saved list
  loading,   \* _load has not finished
  saves,     \* calls of _save that wait for the preferences
  edits,     \* renames and removes so far
  before,    \* history: the list that was stored at the start
  gone,      \* history: tokens the user removed or that fell off the end
  early,     \* history: the list was changed before it was loaded
  failed     \* history: a load or save failed, which the code ignores

recentVars == <<peers, stored, loading, saves, edits, before, gone, early, failed>>

RecentInit ==
  /\ stored \in Kept
  /\ before = stored
  /\ peers = <<>>
  /\ loading = TRUE
  /\ saves = 0 /\ edits = 0
  /\ gone = {} /\ early = FALSE /\ failed = FALSE

\* _load: the stored list replaces the state.  An error leaves it alone, and so
\* does a key that is not there, for which the empty list stands here.
Load ==
  /\ loading
  /\ loading' = FALSE
  /\ \/ peers' = stored /\ UNCHANGED failed
     \/ stored = <<>> /\ UNCHANGED <<peers, failed>>
     \/ failed' = TRUE /\ UNCHANGED peers
  /\ UNCHANGED <<stored, saves, edits, before, gone, early>>

\* The list becomes ps, and a save is on its way.
Change(ps) ==
  /\ peers' = ps
  /\ saves' = saves + 1
  /\ early' = (early \/ loading)
  /\ UNCHANGED <<stored, loading, before, failed>>

\* state.where((p) => p.token != t)
Without(ps, t) ==
  LET kept[i \in 0..Len(ps)] ==
        IF i = 0 THEN <<>>
        ELSE IF ps[i].token = t THEN kept[i - 1] ELSE Append(kept[i - 1], ps[i])
  IN  kept[Len(ps)]

First(ps) == SubSeq(ps, 1, IF Len(ps) < maxItems THEN Len(ps) ELSE maxItems)

\* What touch makes of the list, when it forgets the alias.
TouchedAnew(t) ==
  First(<<[token |-> t, alias |-> FALSE]>> \o Without(peers, t))

\* What touch makes of the list when it does not cut it.
TouchedUncut(t) ==
  <<[token |-> t, alias |-> \E p \in ToSet(peers) : p.token = t /\ p.alias]>>
    \o Without(peers, t)

\* What touch makes of the list: the peer comes first and keeps its alias.
Touched(t) ==
  First(<<[token |-> t, alias |-> \E p \in ToSet(peers) : p.token = t /\ p.alias]>>
        \o Without(peers, t))

Touch(t) ==
  /\ Change(Touched(t))
  /\ gone' = gone \cup (Tokens(peers) \ Tokens(Touched(t)))
  /\ UNCHANGED edits

\* The home screen lists the peers with a menu each.
Edit == edits < MaxEdits /\ edits' = edits + 1

Rename(t) ==
  /\ Edit
  /\ t \in Tokens(peers)
  /\ Change([i \in DOMAIN peers |->
               IF peers[i].token = t THEN [token |-> t, alias |-> TRUE] ELSE peers[i]])
  /\ UNCHANGED gone

RemovePeer(t) ==
  /\ Edit
  /\ t \in Tokens(peers)
  /\ Change(Without(peers, t))
  /\ gone' = gone \cup {t}

\* _save, once it has the preferences.
Save ==
  /\ saves > 0
  /\ saves' = saves - 1
  /\ \/ stored' = peers /\ UNCHANGED failed
     \/ failed' = TRUE /\ UNCHANGED stored
  /\ UNCHANGED <<peers, loading, edits, before, gone, early>>

RecentNext == Load \/ Save \/ \E t \in Token : Rename(t) \/ RemovePeer(t)

-----------------------------------------------------------------------------
RecentTypeOK ==
  /\ peers \in Seq(Peer) /\ Len(peers) <= maxItems
  /\ stored \in Seq(Peer) /\ Len(stored) <= maxItems
  /\ saves \in Nat
  /\ edits \in 0..MaxEdits

\* "Most-recent-first list of peers, persisted": a peer that was stored when the
\* app started is still listed, once and with its alias, unless the user removed
\* it or twenty others pushed it out, and when the saves are through the saved
\* list is the one on the screen.  The code owes that only to changes that come
\* after the load: an earlier touch is lost or takes the place of the old list.
NothingForgotten ==
  ~loading /\ ~early /\ ~failed =>
    /\ NoDuplicate(peers)
    /\ \A p \in ToSet(before) :
         p.token \in gone \/ \E q \in ToSet(peers) : q.token = p.token /\ (p.alias => q.alias)
    /\ saves = 0 => stored = peers
=============================================================================
