----------------------------- MODULE Bookmarks ------------------------------
(***************************************************************************)
(* Saved sites: the file sites.toml, the list that is shown, the passwords *)
(* in the keyring, and the connection form that is saved and loaded.  Each *)
(* command of dd_ftp_cli/src/bookmarks.rs reads the file, changes what it  *)
(* read, writes the file and shows what it wrote; each of these may fail.  *)
(* A site is its label and its account, which stands for host, user and    *)
(* port; protocol, key and folder are along for the ride.                  *)
(***************************************************************************)
EXTENDS Naturals, Sequences, SequencesExt

CONSTANTS
  Label,        \* names of sites; several sites may have the same
  Account,      \* <<host, user, port>>
  Secret,       \* passwords
  NoSecret,     \* no password
  Unreadable,   \* a file that is not a SiteConfig, as a torn write leaves it
  MaxSites      \* bound: sites saved

Form == [name : Label, account : Account, password : Secret \cup {NoSecret}]

ASSUME BookmarksAssumption == /\ NoSecret \notin Secret
                              /\ MaxSites \in Nat
                              /\ Unreadable \notin [list : Seq(Form), default : {0, 1}]

VARIABLES
  sites,        \* sites.toml: [list, default], default 0 for None; or Unreadable
  bookmarks,    \* the sites shown, each with its password if it was just saved
  selected_bookmark,
  keyring,      \* the password of each account
  form,         \* quick_connect, in the parts that matter here
  prompt_target,\* the label whose removal is being confirmed, or NoSecret
  meant,        \* the site that was highlighted when removal was asked for
  stale,        \* the last write failed, and the program has not been started since
  faulty        \* a write or the keyring has failed once

bookmarkVars == <<sites, bookmarks, selected_bookmark, keyring, form, prompt_target, meant, stale, faulty>>

NoSites == [list |-> <<>>, default |-> 0]

(* Passwords are never written to the file, and never read from it.        *)
Stripped(list) == [i \in DOMAIN list |-> [list[i] EXCEPT !.password = NoSecret]]

HasAccount(list, a) == {i \in DOMAIN list : list[i].account = a}
HasName(list, n) == {i \in DOMAIN list : list[i].name = n}

(* The first of the places, 0 if there is none.                            *)
FirstOf(places) == IF places = {} THEN 0 ELSE Min(places)

load_sites == IF sites = Unreadable THEN NoSites ELSE sites

(* write_private: nothing was written, all, or a part that is not TOML or  *)
(* is TOML that ends early.                                                *)
TornSites(cfg) == {Unreadable, sites} \cup
             {[list |-> Stripped(SubSeq(cfg.list, 1, n)), default |-> cfg.default] : n \in 1..(Len(cfg.list) - 1)}

SetBookmarks(list, selected) == bookmarks' = list /\ selected_bookmark' = selected

(* save_to_default_path and the two ways its result is shown.              *)
Write(cfg) ==
  \/ /\ sites' = [cfg EXCEPT !.list = Stripped(@)]
     /\ SetBookmarks(cfg.list, 0)
     /\ stale' = FALSE
  \/ /\ sites' \in TornSites(cfg)
     /\ stale' = TRUE
     /\ UNCHANGED <<bookmarks, selected_bookmark>>

Faults == faulty' = (faulty \/ stale')

(* hydrate_password_from_keyring: the keyring may fail to answer.          *)
Hydrated(site) == IF site.password # NoSecret THEN {site}
                  ELSE {[site EXCEPT !.password = p] : p \in {keyring[site.account], NoSecret}}

-----------------------------------------------------------------------------
(* main: the list, the default site in the form; without sites the form    *)
(* holds what the environment names, which may have a password.            *)
StartSites ==
  /\ prompt_target' = NoSecret /\ meant' = NoSecret
  /\ stale' = FALSE
  /\ LET cfg == load_sites IN
     IF cfg.list = <<>>
     THEN SetBookmarks(<<>>, 0) /\ form' \in Form
     ELSE LET i == IF cfg.default = 0 THEN 1 ELSE IF cfg.default > Len(cfg.list) THEN Len(cfg.list) ELSE cfg.default
          IN  SetBookmarks(cfg.list, i - 1) /\ form' \in Hydrated(cfg.list[i])

(* The question whether to remove a site takes every key and click.        *)
Idle == prompt_target = NoSecret

RestartSites == StartSites /\ UNCHANGED <<sites, keyring, faulty>>

BookmarksInit ==
  /\ sites = NoSites /\ bookmarks = <<>> /\ selected_bookmark = 0
  /\ keyring = [a \in Account |-> NoSecret]
  /\ form \in Form
  /\ prompt_target = NoSecret /\ meant = NoSecret
  /\ stale = FALSE /\ faulty = FALSE

(* The user fills in the form.                                             *)
EditForm == /\ Idle
            /\ form' \in Form
            /\ UNCHANGED <<sites, bookmarks, selected_bookmark, keyring, prompt_target, meant, stale, faulty>>

-----------------------------------------------------------------------------
(* Mutant: a site is the form's only if its label is the form's as well.    *)
AddSite(cfg, info) ==
  LET i == FirstOf(HasAccount(cfg.list, info.account) \cap HasName(cfg.list, info.name)) IN
  [list |-> IF i = 0 THEN Append(cfg.list, info) ELSE [cfg.list EXCEPT ![i] = info],
   default |-> IF cfg.default = 0 THEN 1 ELSE cfg.default]

(* The sites with the form's in them: in the place of the one for the same *)
(* account, or at the end.                                                 *)
WithSite(cfg, info) ==
  LET i == FirstOf(HasAccount(cfg.list, info.account)) IN
  [list |-> IF i = 0 THEN Append(cfg.list, info) ELSE [cfg.list EXCEPT ![i] = info],
   default |-> IF cfg.default # 0 THEN cfg.default ELSE IF i = 0 THEN 1 ELSE i]

Remembered == [keyring EXCEPT ![form.account] = form.password]

SecretFails == /\ form.password # NoSecret
               /\ keyring' \in {keyring, Remembered}
               /\ faulty' = TRUE
               /\ UNCHANGED <<sites, bookmarks, selected_bookmark, stale>>

save_quick_connect_bookmark ==
  LET cfg == load_sites
      after == WithSite(cfg, form)
  IN  /\ Idle
      /\ Len(after.list) <= MaxSites
      /\ UNCHANGED <<form, prompt_target, meant>>
      /\ \/ SecretFails
         \/ /\ keyring' = IF form.password = NoSecret THEN keyring ELSE Remembered
            /\ Write(after) /\ Faults

-----------------------------------------------------------------------------
(* The list of bookmarks: moving in it and loading a site into the form.   *)
SelectBookmark ==
  /\ Idle
  /\ bookmarks # <<>>
  /\ selected_bookmark' \in 0..(Len(bookmarks) - 1)
  /\ UNCHANGED <<sites, bookmarks, keyring, form, prompt_target, meant, stale, faulty>>

HydrateForm ==
  /\ Idle
  /\ selected_bookmark + 1 \in DOMAIN bookmarks
  /\ form' \in Hydrated(bookmarks[selected_bookmark + 1])
  /\ UNCHANGED <<sites, bookmarks, selected_bookmark, keyring, prompt_target, meant, stale, faulty>>

AskDelete ==
  /\ Idle
  /\ selected_bookmark + 1 \in DOMAIN bookmarks
  /\ meant' = bookmarks[selected_bookmark + 1]
  /\ prompt_target' = meant'.name
  /\ UNCHANGED <<sites, bookmarks, selected_bookmark, keyring, form, stale, faulty>>

Decline == /\ ~Idle
           /\ prompt_target' = NoSecret /\ meant' = NoSecret
           /\ UNCHANGED <<sites, bookmarks, selected_bookmark, keyring, form, stale, faulty>>

(* Where the default is once site i has gone.                              *)
DefaultAfter(cfg, i) ==
  IF cfg.default = 0 \/ Len(cfg.list) = 1 THEN 0
  ELSE IF cfg.default = i THEN 1
  ELSE IF cfg.default > i THEN cfg.default - 1 ELSE cfg.default

(* Its failure is not looked at.                                           *)
delete_password(site) == \/ keyring' = [keyring EXCEPT ![site.account] = NoSecret] /\ Faults
                         \/ UNCHANGED keyring /\ faulty' = TRUE

(* The first site of the label goes, and its password before the file says *)
(* so.                                                                     *)
delete_bookmark_named ==
  /\ ~Idle
  /\ prompt_target' = NoSecret /\ meant' = NoSecret
  /\ UNCHANGED form
  /\ LET cfg == load_sites
         i == FirstOf(HasName(cfg.list, prompt_target))
     IN  IF i = 0
         THEN UNCHANGED <<sites, bookmarks, selected_bookmark, keyring, stale, faulty>>
         ELSE /\ Write([list |-> RemoveAt(cfg.list, i), default |-> DefaultAfter(cfg, i)])
              /\ delete_password(cfg.list[i])

Swapped(list, i) == [list EXCEPT ![1] = list[i], ![i] = list[1]]

(* The place is that of the list shown; the file may have another there.   *)
set_default_bookmark ==
  LET cfg == load_sites IN
  /\ Idle
  /\ selected_bookmark < Len(cfg.list)
  /\ Write([list |-> Swapped(cfg.list, selected_bookmark + 1), default |-> 1]) /\ Faults
  /\ UNCHANGED <<keyring, form, prompt_target, meant>>

BookmarksNext ==
  \/ RestartSites \/ EditForm \/ save_quick_connect_bookmark
  \/ SelectBookmark \/ HydrateForm \/ AskDelete \/ Decline \/ delete_bookmark_named
  \/ set_default_bookmark

BookmarksSpec == BookmarksInit /\ [][BookmarksNext]_bookmarkVars

-----------------------------------------------------------------------------
Accounts(list) == {list[i].account : i \in DOMAIN list}

(* The star stands before the first row; the site it marks is the default  *)
(* one, which the next start connects to, however the list has come about. *)
StarMarksDefault == sites # Unreadable /\ sites.list # <<>> => sites.default = 1

(* There is one bookmark for an account, though names may repeat, and      *)
(* though a save may have read a file that another command tore.           *)
OneBookmarkPerAccount == \A i, j \in DOMAIN bookmarks : bookmarks[i].account = bookmarks[j].account => i = j

(* The list that is shown is the one on disk, unless the last write failed *)
(* and said so; the highlight is in it.                                    *)
ListIsOnDisk == /\ ~stale => Stripped(bookmarks) = load_sites.list
                /\ selected_bookmark = 0 \/ selected_bookmark < Len(bookmarks)

(* While nothing fails, the keyring has passwords of listed sites only,    *)
(* those of deleted ones being gone, and a password that the list still    *)
(* holds is the one in the keyring.                                        *)
PasswordsAreListed ==
  ~faulty => /\ \A a \in Account : keyring[a] # NoSecret => a \in Accounts(bookmarks)
             /\ \A i \in DOMAIN bookmarks :
                  bookmarks[i].password # NoSecret => keyring[bookmarks[i].account] = bookmarks[i].password

(* A command leaves every site in the file that it is not about: a save    *)
(* those of other accounts, a removal those of other names, a new default  *)
(* all of them.                                                            *)
OthersAreKept ==
  sites # Unreadable /\ ~stale' =>
    \A i \in DOMAIN sites.list :
      \/ \E k \in DOMAIN sites'.list : sites'.list[k] = sites.list[i]
      \/ sites.list[i].account = form.account
      \/ sites.list[i].name = prompt_target

(* List, file and keyring keep saying the same of the bookmarks, however   *)
(* saves, removals and failed writes follow each other.                    *)
BookmarksAreKept ==
  /\ [](StarMarksDefault /\ OneBookmarkPerAccount /\ ListIsOnDisk /\ PasswordsAreListed)
  /\ [][OthersAreKept]_bookmarkVars

(* The site that is removed is the one that was highlighted.               *)
DeletesTheHighlighted ==
  [][~faulty /\ ~stale' /\ Len(bookmarks') < Len(bookmarks) /\ meant # NoSecret =>
       meant.account \notin Accounts(bookmarks')]_bookmarkVars
=============================================================================
