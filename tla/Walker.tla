------------------------------- MODULE Walker -------------------------------
(***************************************************************************)
(* The directory lister of ps2/main.c: listDir reads a directory, descends *)
(* into each directory in it and prints each entry that passes the filters *)
(* on its owner and its age, a directory after what is below it.           *)
(*                                                                         *)
(* Other processes may remove entries meanwhile, and time passes.  Readdir *)
(* may or may not return an entry that was removed after the opendir, and  *)
(* it may fail.  What a printed line looks like is left out.               *)
(*                                                                         *)
(* cut, once and always are history: they tell the properties what went on *)
(* and no step of the program reads them.                                  *)
(***************************************************************************)
EXTENDS Integers, FiniteSets, SequencesExt

CONSTANTS
  Trees,        \* directory trees; the walk starts at the node "top"
  UserFilters,  \* arguments of -u
  atoi,         \* the number each of them begins with, or 0
  getpwnam,     \* the user each of them names, or NoUser
  TimeFilters,  \* the numbers the arguments of -m begin with
  MaxTime,      \* bound: the clock stops there
  MaxDepth      \* the directories below one another whose path fits 512 bytes

NoFilter == "no filter"
NoUser == -1
NoEntry == "no entry"

\* The directories n is in, and n: what every set has that has n and, of each
\* node, the one above it.
PathIn(t, n) ==
  LET N == DOMAIN t.above
  IN  {m \in N : \A S \in SUBSET N : n \in S /\ (\A x \in S : t.above[x] \in S) => m \in S}

\* The nodes of a tree are "top" and what is below it, and only directories
\* have others in them.
ASSUME WalkerAssumption ==
  /\ \A t \in Trees :
       LET N == DOMAIN t.above
       IN  /\ "top" \in N /\ NoEntry \notin N
           /\ t.above["top"] = "top"
           /\ t.mtime \in [N -> Int]
           /\ \A n \in N : /\ t.above[n] \in N
                           /\ t.kind[t.above[n]] = "dir"
                           /\ "top" \in PathIn(t, n)
  /\ NoFilter \notin UserFilters
  /\ TimeFilters \subseteq Int
  /\ MaxTime \in Nat /\ MaxDepth \in Nat \ {0}

VARIABLES
  tree,         \* above[n]: the directory n is in; its kind, uid, ...
  there,        \* the nodes that exist
  mtime,        \* when each was last modified
  userFilter,   \* the argument of -u, or NoFilter
  timeFilter,   \* *pTimeFilter; 0 also where pTimeFilter is null
  now,          \* the clock
  dirs,         \* the calls of listDir, the innermost last
  printed,      \* the entries printed, in order
  status,       \* "walking", or how the program ended
  cut,          \* the directories no more was read of though there was more
  once, always  \* the nodes that passed the filters once, and those that always did

files == <<tree, there, mtime, now, once, always>>
filters == <<userFilter, timeFilter>>
vars == <<files, filters, dirs, printed, status, cut>>

Nodes == DOMAIN tree.above

\* A call of listDir: its directory, whether it is open yet, the entries its
\* stream has still to return, and the entry read last.
Call(dir) == [dir |-> dir, open |-> FALSE, left |-> {}, de |-> NoEntry]

toDisplay(n) ==
  /\ userFilter # NoFilter =>
       tree.uid[n] = IF atoi[userFilter] # 0 THEN atoi[userFilter] ELSE getpwnam[userFilter]
  /\ \/ timeFilter = 0
     \/ timeFilter > 0 /\ mtime[n] < now - timeFilter
     \/ timeFilter < 0 /\ mtime[n] > now + timeFilter

\* The filters, as the user means them: a number is a uid and any other word a
\* user's name; age is more than timeFilter, or less than its negation.
Passes(n) ==
  /\ userFilter # NoFilter =>
       \/ atoi[userFilter] # 0 /\ tree.uid[n] = atoi[userFilter]
       \/ atoi[userFilter] = 0 /\ tree.uid[n] = getpwnam[userFilter]
  /\ timeFilter > 0 => now - mtime[n] > timeFilter
  /\ timeFilter < 0 => now - mtime[n] < -timeFilter

Passing == {n \in Nodes : Passes(n)}

\* Without -u the pointer userFilter is what was on the stack: null, or bytes
\* that are read as an argument, or no address, which crashes as a name that
\* is no user's does.
Init ==
  /\ tree \in Trees
  /\ there = Nodes
  /\ mtime = tree.mtime
  /\ userFilter \in UserFilters \cup {NoFilter}
  /\ timeFilter \in TimeFilters \cup {0}
  /\ now = 0
  /\ dirs = <<Call("top")>>
  /\ printed = <<>>
  /\ status = "walking"
  /\ cut = {}
  /\ once = Passing
  /\ always = Passing

-----------------------------------------------------------------------------
Depth == Len(dirs)
This == dirs[Depth]

Ends(how) == status' = how /\ UNCHANGED <<dirs, printed>>

\* What readdir returns of dir: what is in it, and . and .. of it.
Entries(dir) == {n \in there : tree.above[n] = dir} \cup {dir, tree.above[dir]}

\* Mutant: only . and .. are skipped.
Hidden_DotsOnly(n, dir) == n \in {dir, tree.above[dir]}

Hidden(n, dir) == n \in {dir, tree.above[dir]} \/ tree.hidden[n]

\* Mutant: opendir is tried until it succeeds.
OpenDir_Retry ==
  /\ status = "walking" /\ ~This.open
  /\ IF This.dir \in there
     THEN /\ dirs' = [dirs EXCEPT ![Depth].open = TRUE, ![Depth].left = Entries(This.dir)]
          /\ UNCHANGED <<printed, status>>
     ELSE UNCHANGED <<dirs, printed, status>>
  /\ UNCHANGED <<files, filters, cut>>

OpenDir ==
  /\ status = "walking" /\ ~This.open
  /\ \/ /\ This.dir \in there
        /\ dirs' = [dirs EXCEPT ![Depth].open = TRUE, ![Depth].left = Entries(This.dir)]
        /\ UNCHANGED <<printed, status>>
     \/ Ends("crashed")    \* readdir of a null stream
  /\ UNCHANGED <<files, filters, cut>>

\* Readdir tells of an entry that it is a directory, where the file system
\* keeps that in its entries; elsewhere the kind is unknown.
Descends(n) == tree.kind[n] = "dir" /\ tree.typed[n]

Reading == status = "walking" /\ This.open /\ This.de = NoEntry

\* Mutant: the loop stops at a hidden entry.
ReadDir_StopAtHidden ==
  /\ Reading
  /\ \E n \in This.left :
       LET rest == [dirs EXCEPT ![Depth].left = @ \ {n}]
           read == [rest EXCEPT ![Depth].de = n]
       IN  IF Hidden(n, This.dir)
           THEN dirs' = [dirs EXCEPT ![Depth].left = {}] /\ UNCHANGED <<printed, status>>
           ELSE IF ~Descends(n) THEN dirs' = read /\ UNCHANGED <<printed, status>>
           ELSE IF Depth < MaxDepth THEN dirs' = Append(read, Call(n)) /\ UNCHANGED <<printed, status>>
           ELSE Ends("undefined")
  /\ UNCHANGED <<files, filters, cut>>

\* An entry is read, and entered when it is a directory.
ReadDir ==
  /\ Reading
  /\ \E n \in This.left :
       LET rest == [dirs EXCEPT ![Depth].left = @ \ {n}]
           read == [rest EXCEPT ![Depth].de = n]
       IN  IF Hidden(n, This.dir) THEN dirs' = rest /\ UNCHANGED <<printed, status>>
           ELSE IF ~Descends(n) THEN dirs' = read /\ UNCHANGED <<printed, status>>
           ELSE IF Depth < MaxDepth THEN dirs' = Append(read, Call(n)) /\ UNCHANGED <<printed, status>>
           ELSE Ends("undefined")    \* tempPath is written past its end
  /\ UNCHANGED <<files, filters, cut>>

\* Readdir returns null at the end of the directory, and when it fails.
CloseDir ==
  /\ Reading
  /\ cut' = IF This.left \cap there = {} THEN cut ELSE cut \cup {This.dir}
  /\ dirs' = Front(dirs)
  /\ status' = IF Depth = 1 THEN "done" ELSE "walking"
  /\ UNCHANGED <<files, filters, printed>>

\* The argument of -u neither begins with a number nor names a user.
NoSuchUser ==
  userFilter # NoFilter /\ atoi[userFilter] = 0 /\ getpwnam[userFilter] = NoUser

\* printData for the entry read last.  getGroup writes through a pointer that
\* was never set when the group has no name; readlink fails when the link was
\* removed after the lstat.
PrintData ==
  /\ status = "walking" /\ This.open /\ This.de # NoEntry
  /\ LET n == This.de
     IN  \/ n \notin there /\ Ends("failed")
         \/ n \in there /\ NoSuchUser /\ Ends("crashed")
         \/ /\ n \in there /\ ~NoSuchUser
            /\ \/ /\ printed' = IF toDisplay(n) THEN Append(printed, n) ELSE printed
                  /\ dirs' = [dirs EXCEPT ![Depth].de = NoEntry]
                  /\ UNCHANGED status
               \/ toDisplay(n) /\ ~tree.grouped[n] /\ Ends("crashed")
               \/ toDisplay(n) /\ tree.kind[n] = "link" /\ Ends("failed")
  /\ UNCHANGED <<files, filters, cut>>

(***************************************************************************)
(* The rest of the system.                                                 *)
(***************************************************************************)
Unlink(n) ==
  /\ status = "walking"
  /\ n \in there /\ \A m \in there \ {n} : tree.above[m] # n
  /\ there' = there \ {n}
  /\ mtime' = [mtime EXCEPT ![tree.above[n]] = now]
  /\ UNCHANGED <<tree, now, filters, dirs, printed, status, cut>>
  /\ once' = once \cup Passing' /\ always' = always \cap Passing'

TimePasses ==
  /\ status = "walking" /\ now < MaxTime
  /\ now' = now + 1
  /\ UNCHANGED <<tree, there, mtime, filters, dirs, printed, status, cut>>
  /\ once' = once \cup Passing' /\ always' = always \cap Passing'

-----------------------------------------------------------------------------
Walk == OpenDir \/ ReadDir \/ CloseDir \/ PrintData

Next == Walk \/ TimePasses \/ \E n \in Nodes : Unlink(n)

Spec == Init /\ [][Next]_vars

FairSpec == Spec /\ WF_vars(Walk)

-----------------------------------------------------------------------------
\* The directories a node is in, and the node.
Path(n) == PathIn(tree, n)

Visible(n) == n # "top" /\ \A m \in Path(n) \ {"top"} : ~tree.hidden[m]

\* No entry is printed twice, none is hidden or in a hidden directory, each
\* passes the filters at one time or another of the walk, and a directory
\* comes after all that is printed of what is in it (main.c:61-75, 250-290).
ListedAsAsked ==
  \A i \in DOMAIN printed :
    /\ Visible(printed[i])
    /\ printed[i] \in once
    /\ \A j \in 1 .. i - 1 : printed[j] \notin Path(printed[i])

\* Each directory n is in is one the program knows to be a directory, and its
\* reading was not cut short.
Reached(n) == \A m \in Path(n) \ {n} : m \notin cut /\ (m = "top" \/ tree.typed[m])

\* A walk that ends well has printed every visible entry it can have reached
\* that is still there and passed the filters all along, whatever was removed
\* around it and whichever other directories failed (main.c:61-77, 86-94).
Complete ==
  status = "done" =>
    \A n \in there \cap always : Visible(n) /\ Reached(n) => n \in ToSet(printed)

\* The walk ends: it never descends into a directory it is in (main.c:63-65,
\* 67-72).
WalkEnds == <>(status # "walking")

=============================================================================
