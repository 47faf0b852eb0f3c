-------------------------------- MODULE UPSWeb --------------------------------
(***************************************************************************)
(* The UPS server and the web site of Mini_UPS/web-app, which work on the  *)
(* same tables.  The site reads a row of user_packages into an object,     *)
(* tests it, changes a field and saves the object: every column is written *)
(* back.  The server updates single columns with statements of its own, at *)
(* any time between the two.                                               *)
(*                                                                         *)
(* Left out: the session and the forms, which only decide who gets a page, *)
(* the pages that only read, and the columns password and email.  The text *)
(* of a feedback is left out too: what matters is that its view saves the  *)
(* row.                                                                    *)
(***************************************************************************)
EXTENDS UPSSystem

CONSTANTS
  NewAddresses,    \* the addresses customers enter
  MaxViews         \* bounds the views that save a row

ASSUME WebAssumption == NewAddresses \subseteq Int \X Int /\ MaxViews \in Nat

VARIABLES
  views,        \* the views that have read a row and will save it
  started,      \* history: how many there were
  overwritten,  \* history: packages whose status was newer than the one saved
  raced         \* history: accounts created while a pickup was about to insert them

webVars == <<views, started, overwritten, raced>>
webSystemVars == <<vars, webVars>>

\* Every view has its own copy of the row.
View == [id : Nat, item : Packages, row : Row]

-----------------------------------------------------------------------------
(* The views *)

Editable(status) == status \in {"created", "pick up", "picked up", "loaded"}

ReadRow(p, row) ==
  /\ started < MaxViews
  /\ started' = started + 1
  /\ views' = views \cup {[id |-> started, item |-> p, row |-> row]}
  /\ UNCHANGED <<vars, overwritten, raced>>

\* edit_address as far as the save: the status is tested on the copy.
edit_address(p) ==
  /\ user_packages[p] # NoPackage
  /\ Editable(user_packages[p].status)
  /\ \E a \in NewAddresses : ReadRow(p, [user_packages[p] EXCEPT !.to = a])

\* The second definition of feedback in the file is the one that counts.
feedback(p) ==
  /\ user_packages[p] # NoPackage
  /\ ReadRow(p, user_packages[p])

\* package.save(): the whole copy is written.
save(v) ==
  /\ v \in views
  /\ views' = views \ {v}
  /\ user_packages' = [user_packages EXCEPT ![v.item] = v.row]
  /\ overwritten' = IF v.row.status = user_packages[v.item].status THEN overwritten
                    ELSE overwritten \cup {v.item}
  /\ UNCHANGED <<numbers, store, handled, m_tasks, workers, user_users, user_trucks,
                 crashed, sockets, losses, worldVars, amazonVars, repeats,
                 started, raced>>

\* A new account; an existing one, as the server makes it, only gets a password
\* and an address.  The unique name refuses what clean_username did not see.
create_account(a) ==
  /\ a \notin user_users
  /\ user_users' = user_users \cup {a}
  /\ raced' = IF \E w \in Workers : /\ workers[w].stage = "no user"
                                     /\ AccountOf[workers[w].msg.item] = a
              THEN raced \cup {a} ELSE raced
  /\ UNCHANGED <<numbers, store, handled, m_tasks, workers, user_packages, user_trucks,
                 crashed, sockets, losses, worldVars, amazonVars, repeats,
                 views, started, overwritten>>

-----------------------------------------------------------------------------

InitWeb ==
  /\ Init
  /\ views = {} /\ started = 0 /\ overwritten = {} /\ raced = {}

Website ==
  \/ \E p \in Packages : edit_address(p) \/ feedback(p)
  \/ \E v \in views : save(v)
  \/ \E a \in Accounts : create_account(a)

ServerBesideSite == Next /\ UNCHANGED webVars

NextWeb == ServerBesideSite \/ Website

SpecWeb == InitWeb /\ [][NextWeb]_webSystemVars

-----------------------------------------------------------------------------
(* Properties *)

\* Types of the variables of the site and of the rows it saves.
WebTypeOK ==
  /\ TypeOK
  /\ \A v \in views : v \in View /\ v.id < started
  /\ started \in 0 .. MaxViews
  /\ overwritten \subseteq Packages
  /\ raced \subseteq Accounts

\* The server ends with an exception only if the site wrote an old status over a newer
\* one, or created an account between the count and the insertion of a pickup.
CrashHasCause == crashed => overwritten # {} \/ raced # {}

\* Whatever is saved when, the package stays on the truck that was picked for it:
\* the truck that the world, Amazon and the table speak of is one truck.
TruckOfPackage ==
  \A p \in Packages : user_packages[p] # NoPackage =>
    /\ \A v \in views : v.item = p => v.row.truck = user_packages[p].truck
    /\ \A c \in issued : c.kind \in {"pickup", "truckarrived", "deliver"} /\ c.item = p
         => c.truck = user_packages[p].truck

=============================================================================
