--------------------------- MODULE ProfileApplyProofs ---------------------------
(***************************************************************************)
(* For any number of services and editors, any configurations and any      *)
(* failures: what a preview accepts can be built where nothing it reads is *)
(* repeated; a plan is written once, as somebody confirmed it to the       *)
(* service that writes it, in time, and as it was shown; nothing is lost.  *)
(***************************************************************************)
EXTENDS ProfileApply, TLAPS, FiniteSetTheorems

(* The text of a configuration, and what parse makes of it. *)

\* The first member of a sequence replaced, as modify does.
LEMMA FirstReplaced ==
    ASSUME NEW S, NEW members \in Seq(S), members # <<>>, NEW T, NEW member \in T, S \subseteq T
    PROVE  LET new == <<member>> \o Tail(members)
           IN  /\ new \in Seq(T) \ {<<>>} /\ DOMAIN new = DOMAIN members /\ Len(new) = Len(members)
               /\ Head(new) = member /\ Tail(new) = Tail(members)
               /\ \A i \in DOMAIN members : new[i] = IF i = 1 THEN member ELSE members[i]
<1>1. Tail(members) \in Seq(T) /\ Len(Tail(members)) = Len(members) - 1 /\ Len(members) \in Nat \ {0}
    OBVIOUS
<1>2. \A i \in 1..Len(Tail(members)) : Tail(members)[i] = members[i + 1]
    OBVIOUS
<1> DEFINE new == <<member>> \o Tail(members)
<1>3. <<member>> \in Seq(T) /\ Len(<<member>>) = 1 /\ <<member>>[1] = member
    OBVIOUS
<1>4. new \in Seq(T) /\ Len(new) = Len(members)
    BY <1>1, <1>3
<1>5. \A i \in 1..Len(members) : new[i] = IF i = 1 THEN member ELSE Tail(members)[i - 1]
    BY <1>1, <1>3
<1>6. \A i \in 1..Len(members) : new[i] = IF i = 1 THEN member ELSE members[i]
    BY <1>1, <1>2, <1>5
<1>7. DOMAIN new = DOMAIN members /\ DOMAIN members = 1..Len(members) /\ new # <<>>
    BY <1>1, <1>4
<1>8. Head(new) = member
    BY <1>1, <1>4, <1>6
<1>9. Tail(new) = Tail(members)
    BY <1>1, <1>3
<1> QED BY <1>4, <1>6, <1>7, <1>8, <1>9

\* The first and the last member of a sequence, and what follows the first.
LEMMA EndsOf ==
    ASSUME NEW S, NEW members \in Seq(S), members # <<>>
    PROVE  /\ Last(members) \in S /\ Last(members) = members[Len(members)]
           /\ Head(members) \in S /\ Head(members) = members[1]
           /\ Tail(members) \in Seq(S)
           /\ Len(members) \in Nat \ {0} /\ DOMAIN members = 1..Len(members)
           /\ Tail(members) = <<>> <=> Len(members) = 1
           /\ Len(members) = 1 => Last(members) = Head(members)
           /\ Len(members) = 1 => members = <<Head(members)>>
<1>1. /\ Len(members) \in Nat \ {0} /\ DOMAIN members = 1..Len(members)
      /\ Last(members) = members[Len(members)] /\ Head(members) = members[1]
      /\ Tail(members) \in Seq(S)
    BY DEF Last
<1>2. Last(members) \in S /\ Head(members) \in S
    BY <1>1
<1>3. Len(Tail(members)) = Len(members) - 1
    OBVIOUS
<1>4. Tail(members) = <<>> <=> Len(members) = 1
    <2>1. \A q \in Seq(S) : q = <<>> <=> Len(q) = 0
        OBVIOUS
    <2>2. Tail(members) = <<>> <=> Len(Tail(members)) = 0
        BY <1>1, <2>1, Zenon
    <2>3. Len(Tail(members)) = 0 <=> Len(members) = 1
        BY <1>1, <1>3
    <2> QED BY <2>2, <2>3, Zenon
<1>5. Len(members) = 1 => members = <<Head(members)>>
    BY <1>1
<1> QED BY <1>1, <1>2, <1>4, <1>5

Texts == Entries \cup {NotAnObject}

\* What a block is, key by key.
LEMMA BlockIs ==
    ASSUME NEW block, IsBlock(block)
    PROVE  /\ block = [key \in DOMAIN block |-> block[key]]
           /\ DOMAIN block \subseteq Approved \cup {Legacy} \cup Unmanaged
           /\ \A key \in DOMAIN block : block[key] \in Seq(Texts) /\ block[key] # <<>>
<1>1. PICK keys \in SUBSET (Approved \cup {Legacy} \cup Unmanaged) :
            block \in [keys -> Seq(Texts) \ {<<>>}]
    BY DEF IsBlock, Texts
<1> QED BY <1>1

\* Any such assignment of entries is a block.
LEMMA BlockFrom ==
    ASSUME NEW block,
           block = [key \in DOMAIN block |-> block[key]],
           DOMAIN block \subseteq Approved \cup {Legacy} \cup Unmanaged,
           \A key \in DOMAIN block : block[key] \in Seq(Texts) /\ block[key] # <<>>
    PROVE  IsBlock(block)
<1>1. block \in [DOMAIN block -> Seq(Texts) \ {<<>>}]
    OBVIOUS
<1> QED BY <1>1 DEF IsBlock, Texts

\* What parse makes of an entry.
LEMMA MeantIs ==
    ASSUME NEW entry \in Texts
    PROVE  /\ entry = NotAnObject <=> Meant(entry) = NotAnObject
           /\ entry # NotAnObject =>
                /\ entry \in Entries /\ Meant(entry) \in Meanings
                /\ Meant(entry).own = entry.own
                /\ Meant(entry).model = IF entry.models = <<>> THEN Unset ELSE Last(entry.models)
<1>1. CASE entry = NotAnObject
    BY <1>1 DEF Meant
<1>2. CASE entry # NotAnObject
    <2>1. entry \in Entries
        BY <1>2 DEF Texts
    <2>2. entry.models \in Seq(Member) /\ entry.own \in Contents
        BY <2>1 DEF Entries
    <2> DEFINE model == IF entry.models = <<>> THEN Unset ELSE Last(entry.models)
    <2>3. model \in Member
        <3>1. Unset \in Member
            BY DEF Member
        <3> QED BY <2>2, <3>1, EndsOf
    <2>4. Meant(entry) = [model |-> model, own |-> entry.own]
        BY <1>2 DEF Meant
    <2> HIDE DEF model
    <2>5. Meant(entry) \in Meanings /\ Meant(entry).own = entry.own /\ Meant(entry).model = model
        BY <2>2, <2>3, <2>4 DEF Meanings
    <2>6. NotAnObject \notin Meanings
        BY ApplyAssumption
    <2> QED BY <1>2, <2>1, <2>5, <2>6 DEF model
<1> QED BY <1>1, <1>2

\* What a configuration is, block by block.
LEMMA ConfigurationIs ==
    ASSUME NEW source, IsConfiguration(source)
    PROVE  /\ source = [agents |-> source.agents, rest |-> source.rest]
           /\ source.agents \in Seq(Range(source.agents)) /\ source.agents # <<>>
           /\ \A b \in DOMAIN source.agents : source.agents[b] = NotAnObject \/ IsBlock(source.agents[b])
           /\ IsBlock(Last(source.agents)) /\ Last(source.agents) # NotAnObject
           /\ Len(source.agents) \in Nat \ {0} /\ DOMAIN source.agents = 1..Len(source.agents)
<1>1. source.agents \in Seq(Range(source.agents)) /\ source.agents # <<>>
    BY DEF IsConfiguration
<1>2. Last(source.agents) \in Range(source.agents)
    BY <1>1, EndsOf
<1>3. \A b \in DOMAIN source.agents : source.agents[b] \in Range(source.agents)
    BY DEF Range
<1> QED BY <1>1, <1>2, <1>3, EndsOf DEF IsConfiguration

\* Any such blocks, with a last one that is an object, are a configuration.
LEMMA ConfigurationFrom ==
    ASSUME NEW blocks, NEW rest, NEW S, blocks \in Seq(S), blocks # <<>>,
           \A b \in DOMAIN blocks : blocks[b] = NotAnObject \/ IsBlock(blocks[b]),
           Last(blocks) # NotAnObject
    PROVE  IsConfiguration([agents |-> blocks, rest |-> rest])
<1> DEFINE source == [agents |-> blocks, rest |-> rest]
<1>1. source.agents = blocks /\ source.rest = rest
    OBVIOUS
<1>2. blocks \in Seq(Range(blocks))
    <2>1. blocks = [b \in 1..Len(blocks) |-> blocks[b]] /\ Len(blocks) \in Nat /\ DOMAIN blocks = 1..Len(blocks)
        OBVIOUS
    <2>2. \A b \in 1..Len(blocks) : blocks[b] \in Range(blocks)
        BY <2>1 DEF Range
    <2> QED BY <2>1, <2>2
<1>3. \A block \in Range(blocks) : block = NotAnObject \/ IsBlock(block)
    BY DEF Range
<1> QED BY <1>1, <1>2, <1>3 DEF IsConfiguration

\* The agents parse returns are the last block's, each by its last entry.
LEMMA AgentsAre ==
    ASSUME NEW source, IsConfiguration(source)
    PROVE  LET block == Last(source.agents)
           IN  /\ DOMAIN Agents(source) = DOMAIN block
               /\ \A key \in DOMAIN block :
                    /\ Last(block[key]) \in Texts
                    /\ Last(block[key]) = block[key][Len(block[key])]
                    /\ Agents(source)[key] = Meant(Last(block[key]))
<1>1. IsBlock(Last(source.agents))
    BY ConfigurationIs
<1>2. \A key \in DOMAIN Last(source.agents) :
        LET entries == Last(source.agents)[key]
        IN  Last(entries) \in Texts /\ Last(entries) = entries[Len(entries)]
    BY <1>1, BlockIs, EndsOf
<1> QED BY <1>2 DEF Agents

\* Setting a model keeps what else is in an entry; it is the one meant where
\* there was at most one.
LEMMA SetModelIs ==
    ASSUME NEW entry \in Entries, NEW model \in Models
    PROVE  /\ SetModel(entry, model) \in Entries
           /\ SetModel(entry, model).own = entry.own
           /\ SetModel(entry, model).notes = entry.notes
           /\ Len(entry.models) <= 1 => Meant(SetModel(entry, model)).model = model
<1> DEFINE models == <<model>> \o (IF entry.models = <<>> THEN <<>> ELSE Tail(entry.models))
           new == SetModel(entry, model)
<1>1. entry.models \in Seq(Member) /\ entry.own \in Contents /\ entry.notes \in Notes /\ model \in Member
    BY DEF Entries, Member
<1>2. entry = [models |-> entry.models, own |-> entry.own, notes |-> entry.notes]
    BY DEF Entries
<1>3. new = [entry EXCEPT !.models = models]
    BY DEF SetModel
<1>4. /\ models \in Seq(Member) /\ models # <<>>
      /\ Len(entry.models) <= 1 => Last(models) = model
    <2>1. CASE entry.models = <<>>
        <3>1. models = <<model>>
            BY <2>1
        <3>2. <<model>> \in Seq(Member) /\ <<model>> # <<>> /\ Len(<<model>>) = 1 /\ <<model>>[1] = model
            BY <1>1
        <3>3. Last(models) = models[Len(models)]
            BY DEF Last
        <3> HIDE DEF models
        <3>4. models \in Seq(Member) /\ models # <<>>
            BY <3>1, <3>2
        <3>5. Last(models) = model
            BY <3>1, <3>2, <3>3
        <3> QED BY <3>4, <3>5
    <2>2. CASE entry.models # <<>>
        <3>1. models = <<model>> \o Tail(entry.models)
            BY <2>2
        <3>2. models \in Seq(Member) /\ models # <<>> /\ Len(models) = Len(entry.models) /\ Head(models) = model
            BY <1>1, <2>2, <3>1, FirstReplaced
        <3>3. Len(entry.models) \in Nat \ {0}
            BY <1>1, <2>2, EndsOf
        <3>4. Len(models) = 1 => Last(models) = model
            BY <3>2, EndsOf
        <3> QED BY <3>2, <3>3, <3>4
    <2> QED BY <2>1, <2>2
<1> HIDE DEF models, new
<1>5. new = [models |-> models, own |-> entry.own, notes |-> entry.notes]
    BY <1>2, <1>3
<1>6. new \in Entries
    BY <1>1, <1>4, <1>5 DEF Entries
<1>7. new.own = entry.own /\ new.notes = entry.notes /\ new.models = models
    BY <1>5
<1>8. new # NotAnObject /\ new \in Texts
    BY <1>6, ApplyAssumption DEF Texts
<1>9. Meant(new).model = IF models = <<>> THEN Unset ELSE Last(models)
    BY <1>7, <1>8, MeantIs
<1> QED BY <1>4, <1>6, <1>7, <1>9 DEF new

\* An entry written again means what was parsed.
LEMMA RenderedIs ==
    ASSUME NEW meant \in Meanings
    PROVE  Rendered(meant) \in Entries /\ Meant(Rendered(meant)) = meant
           /\ Len(Rendered(meant).models) = 1
<1>1. meant.model \in Member /\ meant.own \in Contents /\ meant = [model |-> meant.model, own |-> meant.own]
    BY DEF Meanings
<1>2. NoNotes \in Notes /\ NotAnObject \notin Entries /\ NotAnObject \notin Meanings
    BY ApplyAssumption
<1>3. Rendered(meant) = [models |-> <<meant.model>>, own |-> meant.own, notes |-> NoNotes]
    BY <1>2 DEF Rendered
<1> DEFINE models == <<meant.model>>
           text == Rendered(meant)
<1>4. models \in Seq(Member) /\ models # <<>> /\ Len(models) = 1 /\ Last(models) = meant.model
    BY <1>1 DEF Last
<1> HIDE DEF models, text
<1>5. text = [models |-> models, own |-> meant.own, notes |-> NoNotes]
    BY <1>3 DEF models, text
<1>6. text \in Entries
    BY <1>1, <1>2, <1>4, <1>5 DEF Entries
<1>7. text.models = models /\ text.own = meant.own
    BY <1>5
<1>8. Meant(text) = [model |-> meant.model, own |-> meant.own]
    BY <1>2, <1>4, <1>6, <1>7 DEF Meant
<1> QED BY <1>1, <1>4, <1>6, <1>7, <1>8 DEF text

\* The block after the old name's entry is written under the new one and its
\* first entry deleted.
LEMMA LegacyMoved ==
    ASSUME NEW block, IsBlock(block), NEW text \in Texts
    PROVE  LET new == Drop(Put(block, Thalam, text), Legacy)
           IN  /\ IsBlock(new)
               /\ DOMAIN new \ {Legacy} = (DOMAIN block \cup {Thalam}) \ {Legacy}
               /\ Legacy \in DOMAIN new => Legacy \in DOMAIN block /\ Len(block[Legacy]) > 1
               /\ \A key \in DOMAIN block \ {Legacy, Thalam} : new[key] = block[key]
               /\ new[Thalam] = <<text>> \o Others(block, Thalam)
<1> DEFINE put == Put(block, Thalam, text)
           new == Drop(put, Legacy)
           Keys == Approved \cup {Legacy} \cup Unmanaged
<1>1. /\ Thalam # Legacy /\ Thalam \in Approved
    BY ProfileAssumption
<1>2. /\ block = [key \in DOMAIN block |-> block[key]] /\ DOMAIN block \subseteq Keys
      /\ \A key \in DOMAIN block : block[key] \in Seq(Texts) /\ block[key] # <<>>
    BY BlockIs
<1>3. <<text>> \o Others(block, Thalam) \in Seq(Texts) /\ <<text>> \o Others(block, Thalam) # <<>>
    <2>1. CASE Thalam \in DOMAIN block
        BY <1>2, <2>1, FirstReplaced DEF Others
    <2>2. CASE Thalam \notin DOMAIN block
        <3>1. <<text>> \o <<>> = <<text>> /\ <<text>> \in Seq(Texts) /\ <<text>> # <<>>
            OBVIOUS
        <3> QED BY <2>2, <3>1 DEF Others
    <2> QED BY <2>1, <2>2
<1> DEFINE texts == <<text>> \o Others(block, Thalam)
<1>4. /\ DOMAIN put = DOMAIN block \cup {Thalam} /\ put = [key \in DOMAIN put |-> put[key]]
      /\ put[Thalam] = texts
      /\ \A key \in DOMAIN block \ {Thalam} : put[key] = block[key]
    BY DEF Put
<1> HIDE DEF put, texts
<1>5. \A key \in DOMAIN put : put[key] \in Seq(Texts) /\ put[key] # <<>>
    BY <1>2, <1>3, <1>4 DEF texts
<1>6. /\ new = [key \in DOMAIN new |-> new[key]] /\ DOMAIN new \subseteq DOMAIN put
      /\ DOMAIN new \ {Legacy} = DOMAIN put \ {Legacy}
      /\ \A key \in DOMAIN new \ {Legacy} : new[key] = put[key]
      /\ Legacy \in DOMAIN new => /\ Legacy \in DOMAIN put /\ Tail(put[Legacy]) # <<>>
                                  /\ new[Legacy] = Tail(put[Legacy])
    <2>1. CASE Legacy \in DOMAIN put /\ Tail(put[Legacy]) # <<>>
        BY <1>4, <2>1 DEF Drop, Others
    <2>2. CASE Legacy \notin DOMAIN put \/ Tail(put[Legacy]) = <<>>
        <3>1. Others(put, Legacy) = <<>>
            BY <2>2 DEF Others
        <3> QED BY <3>1 DEF Drop
    <2> QED BY <2>1, <2>2
<1> HIDE DEF new
<1>7. Legacy \in DOMAIN new => /\ Legacy \in DOMAIN block /\ Len(block[Legacy]) > 1
                               /\ new[Legacy] \in Seq(Texts) /\ new[Legacy] # <<>>
    <2> SUFFICES ASSUME Legacy \in DOMAIN new
                 PROVE  /\ Legacy \in DOMAIN block /\ Len(block[Legacy]) > 1
                        /\ new[Legacy] \in Seq(Texts) /\ new[Legacy] # <<>>
        OBVIOUS
    <2>1. Legacy \in DOMAIN block /\ put[Legacy] = block[Legacy]
        BY <1>1, <1>4, <1>6
    <2>2. block[Legacy] \in Seq(Texts) /\ block[Legacy] # <<>>
        BY <1>2, <2>1
    <2>3. Tail(block[Legacy]) # <<>> /\ new[Legacy] = Tail(block[Legacy])
        BY <1>6, <2>1
    <2>4. Len(block[Legacy]) \in Nat \ {0} /\ Len(block[Legacy]) # 1 /\ Tail(block[Legacy]) \in Seq(Texts)
        BY <2>2, <2>3, EndsOf
    <2> QED BY <2>1, <2>3, <2>4
<1>8. IsBlock(new)
    <2>1. \A key \in DOMAIN new : new[key] \in Seq(Texts) /\ new[key] # <<>>
        BY <1>5, <1>6, <1>7
    <2>2. DOMAIN new \subseteq Keys
        BY <1>1, <1>2, <1>4, <1>6
    <2> HIDE DEF Keys
    <2>3. new = [key \in DOMAIN new |-> new[key]]
        BY <1>6
    <2> QED BY <2>1, <2>2, <2>3, BlockFrom DEF Keys
<1>9. /\ \A key \in DOMAIN block \ {Legacy, Thalam} : new[key] = block[key]
      /\ new[Thalam] = texts
    BY <1>1, <1>4, <1>6
<1> QED BY <1>4, <1>6, <1>7, <1>8, <1>9 DEF new, put, texts

\* The block after the models are set.
LEMMA BlockModelled ==
    ASSUME NEW block, IsBlock(block), NEW desired,
           \A agent \in Approved : desired[agent] \in Models /\ First(block, agent) # NotAnObject
    PROVE  LET new == Modelled(block, desired)
           IN  /\ IsBlock(new)
               /\ DOMAIN new = DOMAIN block \cup Approved
               /\ \A key \in DOMAIN block :
                    /\ Len(new[key]) = Len(block[key]) /\ DOMAIN new[key] = DOMAIN block[key]
                    /\ \A i \in DOMAIN block[key] : OnlyModels(block[key][i], new[key][i])
                    /\ key \notin Approved => new[key] = block[key]
                    /\ key \in Approved =>
                        Head(block[key]) \in Entries /\ Head(new[key]) = SetModel(Head(block[key]), desired[key])
<1> DEFINE new == Modelled(block, desired)
           texts(key) == <<SetModel(First(block, key), desired[key])>> \o Others(block, key)
<1>1. /\ block = [key \in DOMAIN block |-> block[key]]
      /\ DOMAIN block \subseteq Approved \cup {Legacy} \cup Unmanaged
      /\ \A key \in DOMAIN block : block[key] \in Seq(Texts) /\ block[key] # <<>>
    BY BlockIs
<1>2. /\ new = [key \in DOMAIN new |-> new[key]] /\ DOMAIN new = DOMAIN block \cup Approved
      /\ \A key \in DOMAIN new : new[key] = IF key \in Approved THEN texts(key) ELSE block[key]
    BY DEF Modelled
<1> HIDE DEF new
<1>3. ASSUME NEW key \in Approved
      PROVE  /\ First(block, key) \in Entries
             /\ texts(key) \in Seq(Texts) /\ texts(key) # <<>>
             /\ key \in DOMAIN block =>
                    /\ Len(texts(key)) = Len(block[key]) /\ DOMAIN texts(key) = DOMAIN block[key]
                    /\ Head(texts(key)) = SetModel(Head(block[key]), desired[key])
                    /\ \A i \in DOMAIN block[key] : OnlyModels(block[key][i], texts(key)[i])
    <2> DEFINE first == First(block, key)
               changed == SetModel(first, desired[key])
    <2>1. first \in Entries
        <3>1. CASE key \in DOMAIN block
            <4>1. first = Head(block[key]) /\ first \in Texts
                BY <1>1, <3>1, EndsOf DEF First
            <4> QED BY <4>1 DEF Texts
        <3>2. CASE key \notin DOMAIN block
            <4>1. first = [models |-> <<>>, own |-> Bare, notes |-> NoNotes]
                BY <3>2 DEF First
            <4>2. <<>> \in Seq(Member) /\ Bare \in Contents /\ NoNotes \in Notes
                BY ApplyAssumption
            <4> QED BY <4>1, <4>2 DEF Entries
        <3> QED BY <3>1, <3>2
    <2>2. changed \in Entries /\ changed.own = first.own /\ changed.notes = first.notes
        BY <2>1, SetModelIs
    <2> HIDE DEF changed
    <2>3. changed \in Texts
        BY <2>2 DEF Texts
    <2>4. CASE key \notin DOMAIN block
        <3>1. texts(key) = <<changed>> \o <<>>
            BY <2>4 DEF Others, changed
        <3>2. <<changed>> \o <<>> \in Seq(Texts) /\ <<changed>> \o <<>> # <<>>
            BY <2>3
        <3> QED BY <2>1, <2>4, <3>1, <3>2
    <2>5. CASE key \in DOMAIN block
        <3> DEFINE old == block[key]
        <3>1. texts(key) = <<changed>> \o Tail(old) /\ first = Head(old)
            BY <2>5 DEF Others, First, changed
        <3>2. old \in Seq(Texts) /\ old # <<>>
            BY <1>1, <2>5
        <3> HIDE DEF texts, first, old
        <3>3. /\ texts(key) \in Seq(Texts) /\ texts(key) # <<>>
              /\ DOMAIN texts(key) = DOMAIN old /\ Len(texts(key)) = Len(old) /\ Head(texts(key)) = changed
              /\ \A i \in DOMAIN old : texts(key)[i] = IF i = 1 THEN changed ELSE old[i]
            BY <2>3, <3>1, <3>2, FirstReplaced
        <3>4. old[1] = first
            BY <3>1, <3>2, EndsOf
        <3>5. NotAnObject \notin Entries
            BY ApplyAssumption
        <3>6. ASSUME NEW i \in DOMAIN old PROVE OnlyModels(old[i], texts(key)[i])
            <4>1. CASE i = 1
                BY <2>1, <2>2, <3>3, <3>4, <3>5, <4>1 DEF OnlyModels
            <4>2. CASE i # 1
                BY <3>3, <4>2 DEF OnlyModels
            <4> QED BY <4>1, <4>2
        <3> QED BY <2>1, <3>1, <3>3, <3>6 DEF old, first, changed
    <2> QED BY <2>4, <2>5
<1> HIDE DEF texts
<1>4. \A key \in DOMAIN new : new[key] \in Seq(Texts) /\ new[key] # <<>>
    BY <1>1, <1>2, <1>3
<1>5. IsBlock(new)
    <2>1. DOMAIN new \subseteq Approved \cup {Legacy} \cup Unmanaged
        BY <1>1, <1>2
    <2> QED BY <1>2, <1>4, <2>1, BlockFrom
<1>6. ASSUME NEW key \in DOMAIN block
      PROVE  /\ Len(new[key]) = Len(block[key]) /\ DOMAIN new[key] = DOMAIN block[key]
             /\ \A i \in DOMAIN block[key] : OnlyModels(block[key][i], new[key][i])
             /\ key \notin Approved => new[key] = block[key]
             /\ key \in Approved =>
                  Head(block[key]) \in Entries /\ Head(new[key]) = SetModel(Head(block[key]), desired[key])
    <2>1. CASE key \notin Approved
        <3>1. new[key] = block[key]
            BY <1>2, <2>1
        <3> QED BY <2>1, <3>1 DEF OnlyModels
    <2>2. CASE key \in Approved
        <3>1. new[key] = texts(key) /\ First(block, key) = Head(block[key])
            BY <1>2, <2>2 DEF First
        <3> QED BY <1>3, <2>2, <3>1
    <2> QED BY <2>1, <2>2
<1> QED BY <1>2, <1>5, <1>6 DEF new

\* A configuration whose first block was edited.
LEMMA EditedIs ==
    ASSUME NEW source, IsConfiguration(source), NEW block, IsBlock(block)
    PROVE  LET new == [source EXCEPT !.agents[1] = block]
           IN  /\ IsConfiguration(new) /\ new.rest = source.rest
               /\ DOMAIN new.agents = DOMAIN source.agents /\ Len(new.agents) = Len(source.agents)
               /\ new.agents[1] = block
               /\ \A b \in DOMAIN source.agents \ {1} : new.agents[b] = source.agents[b]
               /\ Last(new.agents) = IF Len(source.agents) = 1 THEN block ELSE Last(source.agents)
<1> DEFINE new == [source EXCEPT !.agents[1] = block]
           blocks == [source.agents EXCEPT ![1] = block]
           n == Len(source.agents)
           S == Range(source.agents) \cup {block}
<1>1. /\ source = [agents |-> source.agents, rest |-> source.rest]
      /\ source.agents \in Seq(Range(source.agents)) /\ source.agents # <<>>
      /\ \A b \in DOMAIN source.agents : source.agents[b] = NotAnObject \/ IsBlock(source.agents[b])
      /\ Last(source.agents) # NotAnObject
      /\ n \in Nat \ {0} /\ DOMAIN source.agents = 1..n
    BY ConfigurationIs
<1>2. new = [agents |-> blocks, rest |-> source.rest]
    BY <1>1
<1>3. blocks \in Seq(S) /\ Len(blocks) = n /\ DOMAIN blocks = 1..n
    BY <1>1
<1>4. blocks[1] = block /\ \A b \in 1..n \ {1} : blocks[b] = source.agents[b]
    BY <1>1
<1>5. Last(blocks) = IF n = 1 THEN block ELSE Last(source.agents)
    <2>1. Last(blocks) = blocks[n] /\ Last(source.agents) = source.agents[n]
        BY <1>3 DEF Last
    <2> QED BY <1>1, <1>4, <2>1
<1>6. block # NotAnObject
    BY ApplyAssumption
<1> HIDE DEF blocks, new, S
<1>7. blocks # <<>>
    BY <1>1, <1>3
<1>8. \A b \in DOMAIN blocks : blocks[b] = NotAnObject \/ IsBlock(blocks[b])
    BY <1>1, <1>3, <1>4
<1>9. Last(blocks) # NotAnObject
    BY <1>1, <1>5, <1>6
<1>10. IsConfiguration(new)
    BY <1>2, <1>3, <1>7, <1>8, <1>9, ConfigurationFrom
<1>11. new.agents = blocks /\ new.rest = source.rest
    BY <1>2
<1> QED BY <1>1, <1>3, <1>4, <1>5, <1>10, <1>11 DEF new

\* A configuration whose old name was moved.
LEMMA MovedIs ==
    ASSUME NEW source, IsConfiguration(source), source.agents[1] # NotAnObject
    PROVE  /\ IsConfiguration(Moved(source)) /\ Moved(source).rest = source.rest
           /\ DOMAIN Moved(source).agents = DOMAIN source.agents
           /\ Len(Moved(source).agents) = Len(source.agents)
           /\ \A b \in DOMAIN source.agents \ {1} : Moved(source).agents[b] = source.agents[b]
           /\ IsBlock(source.agents[1]) /\ IsBlock(Moved(source).agents[1])
           /\ Legacy \notin DOMAIN Agents(source) => Moved(source) = source
           /\ Legacy \in DOMAIN Agents(source) =>
                LET text == Rendered(Agents(source)[Legacy])
                IN  /\ text \in Texts /\ Meant(text) = Agents(source)[Legacy]
                    /\ text # NotAnObject => Len(text.models) = 1
                    /\ Moved(source).agents[1] = Drop(Put(source.agents[1], Thalam, text), Legacy)
                    /\ Last(Moved(source).agents) = IF Len(source.agents) = 1 THEN Moved(source).agents[1]
                                                    ELSE Last(source.agents)
<1>1. IsBlock(source.agents[1]) /\ 1 \in DOMAIN source.agents
    BY ConfigurationIs
<1>2. CASE Legacy \notin DOMAIN Agents(source)
    BY <1>1, <1>2 DEF Moved
<1>3. CASE Legacy \in DOMAIN Agents(source)
    <2> DEFINE text == Rendered(Agents(source)[Legacy])
               block == Drop(Put(source.agents[1], Thalam, text), Legacy)
    <2>1. /\ text \in Texts /\ Meant(text) = Agents(source)[Legacy]
          /\ text # NotAnObject => Len(text.models) = 1
        <3> DEFINE entry == Last(Last(source.agents)[Legacy])
                   meant == Agents(source)[Legacy]
        <3>1. entry \in Texts /\ meant = Meant(entry)
            BY <1>3, AgentsAre
        <3> HIDE DEF entry, meant
        <3>2. CASE entry = NotAnObject
            <4>1. meant = NotAnObject
                BY <3>1, <3>2 DEF Meant
            <4>2. Rendered(meant) = NotAnObject
                BY <4>1 DEF Rendered
            <4> QED BY <4>1, <4>2 DEF meant, Texts, Meant
        <3>3. CASE entry # NotAnObject
            <4>1. meant \in Meanings
                BY <3>1, <3>3, MeantIs
            <4>2. Rendered(meant) \in Entries /\ Meant(Rendered(meant)) = meant /\ Len(Rendered(meant).models) = 1
                BY <4>1, RenderedIs
            <4> QED BY <4>2 DEF meant, Texts
        <3> QED BY <3>2, <3>3
    <2>2. Moved(source) = [source EXCEPT !.agents[1] = block]
        BY <1>3 DEF Moved
    <2> HIDE DEF text
    <2>3. IsBlock(block)
        BY <1>1, <2>1, LegacyMoved
    <2> HIDE DEF block
    <2>4. /\ IsConfiguration(Moved(source)) /\ Moved(source).rest = source.rest
          /\ DOMAIN Moved(source).agents = DOMAIN source.agents
          /\ Len(Moved(source).agents) = Len(source.agents)
          /\ Moved(source).agents[1] = block
          /\ \A b \in DOMAIN source.agents \ {1} : Moved(source).agents[b] = source.agents[b]
          /\ Last(Moved(source).agents) = IF Len(source.agents) = 1 THEN block ELSE Last(source.agents)
        BY <2>2, <2>3, EditedIs
    <2> QED BY <1>1, <1>3, <2>1, <2>3, <2>4 DEF block, text
<1> QED BY <1>2, <1>3

\* What the moved text means: the agents the preview saw.
LEMMA MovedMeans ==
    ASSUME NEW source, IsConfiguration(source), source.agents[1] # NotAnObject,
           ~BothIdentities(Agents(source)),
           Len(source.agents) = 1 \/ WellFormed(Agents(Moved(source)), Thalam)
    PROVE  LET seen == Seen(Agents(source))
               moved == Agents(Moved(source))
               old == source.agents[1]
               new == Moved(source).agents[1]
           IN  /\ DOMAIN moved \ {Legacy} = DOMAIN seen \ {Legacy}
               /\ \A key \in DOMAIN moved \ {Legacy} : moved[key] = seen[key]
               /\ Legacy \in DOMAIN moved => Legacy \in DOMAIN old /\ Len(old[Legacy]) > 1
               /\ \A key \in DOMAIN old \ {Legacy} : key \in DOMAIN new /\ new[key] = old[key]
               /\ \A key \in DOMAIN new \ {Legacy} :
                    \/ key \in DOMAIN old /\ new[key] = old[key]
                    \/ /\ Legacy \in DOMAIN Agents(source)
                       /\ new[key] = <<Rendered(Agents(source)[Legacy])>>
<1> DEFINE seen == Seen(Agents(source))
           moved == Agents(Moved(source))
           old == source.agents[1]
           new == Moved(source).agents[1]
<1>1. Thalam # Legacy
    BY ProfileAssumption
<1>2. CASE Legacy \notin DOMAIN Agents(source)
    <2>1. Moved(source) = source
        BY <1>2, MovedIs
    <2>2. seen = Agents(source)
        BY <1>2 DEF Seen
    <2> QED BY <1>2, <2>1, <2>2
<1>3. CASE Legacy \in DOMAIN Agents(source)
    <2> DEFINE text == Rendered(Agents(source)[Legacy])
    <2>1. Thalam \notin DOMAIN Agents(source)
        BY <1>3 DEF BothIdentities
    <2>2. Len(source.agents) = 1
        <3> SUFFICES ASSUME Len(source.agents) # 1 PROVE FALSE
            OBVIOUS
        <3>1. Last(Moved(source).agents) = Last(source.agents)
            BY <1>3, MovedIs
        <3>2. Agents(Moved(source)) = Agents(source)
            BY <3>1 DEF Agents
        <3> QED BY <2>1, <3>2 DEF WellFormed
    <2>3. Last(source.agents) = old /\ Last(Moved(source).agents) = new /\ IsConfiguration(Moved(source))
        BY <1>3, <2>2, MovedIs DEF Last
    <2>4. /\ DOMAIN Agents(source) = DOMAIN old
          /\ \A key \in DOMAIN old : Agents(source)[key] = Meant(Last(old[key]))
        BY <2>3, AgentsAre
    <2>5. /\ DOMAIN moved = DOMAIN new
          /\ \A key \in DOMAIN new : moved[key] = Meant(Last(new[key]))
        BY <2>3, AgentsAre
    <2>6. /\ IsBlock(old) /\ text \in Texts /\ Meant(text) = Agents(source)[Legacy]
          /\ new = Drop(Put(old, Thalam, text), Legacy)
        BY <1>3, MovedIs
    <2>7. Others(old, Thalam) = <<>>
        BY <2>1, <2>4 DEF Others
    <2> HIDE DEF old, new, moved, text
    <2>8. /\ DOMAIN new \ {Legacy} = (DOMAIN old \cup {Thalam}) \ {Legacy}
          /\ Legacy \in DOMAIN new => Legacy \in DOMAIN old /\ Len(old[Legacy]) > 1
          /\ \A key \in DOMAIN old \ {Legacy, Thalam} : new[key] = old[key]
          /\ new[Thalam] = <<text>> \o <<>>
        BY <2>6, <2>7, LegacyMoved
    <2>9. <<text>> \o <<>> = <<text>> /\ Last(<<text>>) = text
        BY <2>6 DEF Last
    <2>10. DOMAIN seen \ {Legacy} = (DOMAIN old \cup {Thalam}) \ {Legacy}
        BY <1>1, <1>3, <2>4 DEF Seen
    <2>11. \A key \in DOMAIN new \ {Legacy} : moved[key] = seen[key]
        <3> TAKE key \in DOMAIN new \ {Legacy}
        <3>1. CASE key = Thalam
            <4>1. moved[key] = Meant(text)
                BY <2>5, <2>8, <2>9, <3>1
            <4>2. seen[key] = Agents(source)[Legacy]
                BY <1>3, <3>1 DEF Seen
            <4> QED BY <2>6, <4>1, <4>2
        <3>2. CASE key # Thalam
            <4>1. key \in DOMAIN old /\ new[key] = old[key]
                BY <2>8, <3>2
            <4>2. seen[key] = Agents(source)[key]
                BY <1>3, <2>4, <3>2, <4>1 DEF Seen
            <4> QED BY <2>4, <2>5, <4>1, <4>2
        <3> QED BY <3>1, <3>2
    <2>12. \A key \in DOMAIN old \ {Legacy} : key # Thalam
        BY <2>1, <2>4
    <2> QED BY <1>3, <2>5, <2>8, <2>9, <2>10, <2>11, <2>12 DEF old, new, moved, text
<1> QED BY <1>2, <1>3

\* Small numbers.
LEMMA OneOrMore == \A n \in Nat : n = 0 \/ n = 1 \/ n > 1
OBVIOUS

\* Small numbers again.
LEMMA AtMostOne == \A n \in Nat : n <= 1 \/ n > 1
OBVIOUS

\* The preview's conditions, stated for the old name where that is the one in
\* the file, are those under which a text that repeats nothing can be edited.
LEMMA AcceptedCanBeBuilt ==
    ASSUME NEW source, IsConfiguration(source), PreviewAccepts(source), ~Repeats(source),
           NEW desired, \A agent \in Approved : desired[agent] \in Models
    PROVE  ~BuildRefuses(source, desired)
<1> DEFINE seen == Seen(Agents(source))
           old == source.agents[1]
           moved == Moved(source)
           block == moved.agents[1]
           built == Built(source, desired)
<1>1. /\ source # Broken /\ ~BothIdentities(Agents(source))
      /\ \A agent \in Approved : WellFormed(seen, agent)
    BY DEF PreviewAccepts
<1>2. Len(source.agents) = 1 /\ Last(source.agents) = old /\ old # NotAnObject
    <2>1. Len(source.agents) \in Nat \ {0} /\ ~(Len(source.agents) > 1)
        BY ConfigurationIs DEF Repeats
    <2>2. Len(source.agents) = 1
        BY <2>1, OneOrMore, Zenon
    <2>3. Last(source.agents) = old
        BY <2>2 DEF Last
    <2> QED BY <2>2, <2>3, ConfigurationIs
<1>3. /\ IsConfiguration(moved) /\ Len(moved.agents) = 1 /\ Last(moved.agents) = block
      /\ IsBlock(old) /\ IsBlock(block)
    <2>1. IsConfiguration(moved) /\ Len(moved.agents) = 1 /\ IsBlock(old) /\ IsBlock(block)
        BY <1>2, MovedIs
    <2>2. Last(moved.agents) = block
        BY <2>1 DEF Last
    <2> QED BY <2>1, <2>2
<1>4. /\ DOMAIN Agents(moved) = DOMAIN block
      /\ \A key \in DOMAIN block : Agents(moved)[key] = Meant(Last(block[key]))
    BY <1>3, AgentsAre
<1>5. ASSUME NEW agent \in Approved
      PROVE  /\ agent \in DOMAIN block /\ Agents(moved)[agent] # NotAnObject
             /\ Len(block[agent]) = 1 /\ Last(block[agent]) = Head(block[agent])
             /\ Head(block[agent]) \in Entries /\ Len(Head(block[agent]).models) <= 1
    <2>1. agent # Legacy
        BY ProfileAssumption
    <2>2. agent \in DOMAIN seen /\ seen[agent] # NotAnObject
        BY <1>1 DEF WellFormed
    <2>3. agent \in DOMAIN block /\ Agents(moved)[agent] = seen[agent]
        BY <1>1, <1>2, <1>4, <2>1, <2>2, MovedMeans
    <2>4. block[agent] \in Seq(Texts) /\ block[agent] # <<>>
        BY <1>3, <2>3, BlockIs
    <2>5. Len(block[agent]) = 1 /\ (Head(block[agent]) # NotAnObject => Len(Head(block[agent]).models) <= 1)
        <3>1. \/ agent \in DOMAIN old /\ block[agent] = old[agent]
              \/ /\ Legacy \in DOMAIN Agents(source)
                 /\ block[agent] = <<Rendered(Agents(source)[Legacy])>>
            BY <1>1, <1>2, <2>1, <2>3, MovedMeans
        <3>2. CASE agent \in DOMAIN old /\ block[agent] = old[agent]
            <4>1. ~(Len(block[agent]) > 1) /\ ~(Len(Head(block[agent]).models) > 1)
                BY <3>2 DEF Repeats
            <4>2. Len(block[agent]) \in Nat \ {0} /\ Head(block[agent]) \in Texts
                BY <2>4, EndsOf
            <4>3. Head(block[agent]) # NotAnObject => Head(block[agent]).models \in Seq(Member)
                BY <4>2 DEF Texts, Entries
            <4>4. \A models \in Seq(Member) : Len(models) \in Nat
                OBVIOUS
            <4> QED BY <4>1, <4>2, <4>3, <4>4, OneOrMore, AtMostOne, Zenon
        <3>3. CASE Legacy \in DOMAIN Agents(source) /\ block[agent] = <<Rendered(Agents(source)[Legacy])>>
            <4> DEFINE text == Rendered(Agents(source)[Legacy])
            <4>1. text # NotAnObject => Len(text.models) = 1
                BY <1>2, <3>3, MovedIs
            <4> HIDE DEF text
            <4>2. block[agent] = <<text>>
                BY <3>3 DEF text
            <4>3. Len(<<text>>) = 1 /\ Head(<<text>>) = text
                OBVIOUS
            <4>4. 1 <= 1
                OBVIOUS
            <4> QED BY <4>1, <4>2, <4>3, <4>4, Zenon
        <3> QED BY <3>1, <3>2, <3>3
    <2>6. Last(block[agent]) = Head(block[agent]) /\ Head(block[agent]) \in Texts
        BY <2>4, <2>5, EndsOf
    <2>7. Head(block[agent]) # NotAnObject
        BY <1>4, <2>2, <2>3, <2>6, MeantIs
    <2> QED BY <2>2, <2>3, <2>5, <2>6, <2>7 DEF Texts
<1>6. \A agent \in Approved : First(block, agent) = Head(block[agent]) /\ First(block, agent) # NotAnObject
    BY <1>5, ApplyAssumption DEF First
<1>7. Verified(Agents(built), desired)
    <2> DEFINE new == Modelled(block, desired)
    <2>1. /\ IsBlock(new) /\ DOMAIN new = DOMAIN block \cup Approved
          /\ \A key \in DOMAIN block :
                /\ Len(new[key]) = Len(block[key])
                /\ key \in Approved => Head(new[key]) = SetModel(Head(block[key]), desired[key])
        BY <1>3, <1>6, BlockModelled
    <2>2. built = [moved EXCEPT !.agents[1] = new]
        BY DEF Built
    <2> HIDE DEF new
    <2>3. IsConfiguration(built) /\ Last(built.agents) = new
        BY <1>3, <2>1, <2>2, EditedIs
    <2>4. /\ DOMAIN Agents(built) = DOMAIN new
          /\ \A key \in DOMAIN new : Agents(built)[key] = Meant(Last(new[key]))
        BY <2>3, AgentsAre
    <2>5. ASSUME NEW agent \in Approved
          PROVE  WellFormed(Agents(built), agent) /\ Agents(built)[agent].model = desired[agent]
        <3> DEFINE text == SetModel(Head(block[agent]), desired[agent])
        <3>1. text \in Entries /\ Meant(text).model = desired[agent]
            BY <1>5, SetModelIs
        <3>2. Meant(text) # NotAnObject
            BY <3>1, MeantIs, ApplyAssumption DEF Texts
        <3> HIDE DEF text
        <3>3. agent \in DOMAIN new /\ Len(new[agent]) = 1 /\ Head(new[agent]) = text
            BY <1>5, <2>1 DEF text
        <3>4. new[agent] \in Seq(Texts) /\ new[agent] # <<>>
            BY <2>1, <3>3, BlockIs
        <3>5. Last(new[agent]) = text
            BY <3>3, <3>4, EndsOf
        <3> QED BY <2>4, <3>1, <3>2, <3>3, <3>5 DEF WellFormed
    <2> QED BY <2>5 DEF Verified
<1>8. \A agent \in Approved : WellFormed(Agents(moved), agent)
    BY <1>4, <1>5 DEF WellFormed
<1> QED BY <1>1, <1>2, <1>6, <1>7, <1>8 DEF BuildRefuses

\* What the edited text is, and what it means.
LEMMA BuiltIs ==
    ASSUME NEW source, IsConfiguration(source),
           NEW desired, \A agent \in Approved : desired[agent] \in Models,
           ~BuildRefuses(source, desired)
    PROVE  LET built == Built(source, desired)
               old == Seen(Agents(source))
               new == Agents(built)
           IN  /\ IsConfiguration(built) /\ built.rest = source.rest
               /\ DOMAIN new \ {Legacy} = DOMAIN old \ {Legacy}
               /\ Legacy \in DOMAIN new => Len(source.agents[1][Legacy]) > 1
               /\ \A key \in DOMAIN new \ {Legacy} :
                    IF key \in Approved
                    THEN old[key] \in Meanings /\ new[key] = [old[key] EXCEPT !.model = desired[key]]
                    ELSE new[key] = old[key]
               /\ \A b \in DOMAIN source.agents : \A key \in DOMAIN source.agents[b] \ {Legacy} :
                    \A i \in DOMAIN source.agents[b][key] :
                        OnlyModels(source.agents[b][key][i], built.agents[b][key][i])
<1> DEFINE old == Seen(Agents(source))
           first == source.agents[1]
           moved == Moved(source)
           block == moved.agents[1]
           changed == Modelled(block, desired)
           built == Built(source, desired)
           new == Agents(built)
<1>1. /\ ~BothIdentities(Agents(source)) /\ first # NotAnObject
      /\ \A agent \in Approved : WellFormed(Agents(moved), agent) /\ First(block, agent) # NotAnObject
      /\ Verified(new, desired)
    BY DEF BuildRefuses
<1>2. /\ IsConfiguration(moved) /\ moved.rest = source.rest
      /\ DOMAIN moved.agents = DOMAIN source.agents /\ Len(moved.agents) = Len(source.agents)
      /\ \A b \in DOMAIN source.agents \ {1} : moved.agents[b] = source.agents[b]
      /\ IsBlock(first) /\ IsBlock(block)
    BY <1>1, MovedIs
<1>3. Thalam \in Approved /\ Legacy \notin Approved
    BY ProfileAssumption
<1>4. /\ DOMAIN Agents(moved) \ {Legacy} = DOMAIN old \ {Legacy}
      /\ \A key \in DOMAIN Agents(moved) \ {Legacy} : Agents(moved)[key] = old[key]
      /\ Legacy \in DOMAIN Agents(moved) => Legacy \in DOMAIN first /\ Len(first[Legacy]) > 1
      /\ \A key \in DOMAIN first \ {Legacy} : key \in DOMAIN block /\ block[key] = first[key]
    BY <1>1, <1>3, MovedMeans
<1>5. /\ IsBlock(changed) /\ DOMAIN changed = DOMAIN block \cup Approved
      /\ \A key \in DOMAIN block :
            /\ Len(changed[key]) = Len(block[key]) /\ DOMAIN changed[key] = DOMAIN block[key]
            /\ \A i \in DOMAIN block[key] : OnlyModels(block[key][i], changed[key][i])
            /\ key \notin Approved => changed[key] = block[key]
    <2> HIDE DEF block
    <2>1. \A agent \in Approved : desired[agent] \in Models /\ First(block, agent) # NotAnObject
        BY <1>1
    <2>2. IsBlock(block)
        BY <1>2
    <2> QED BY <2>1, <2>2, BlockModelled
<1>6. built = [moved EXCEPT !.agents[1] = changed]
    BY DEF Built
<1> HIDE DEF built, changed, block, moved, first, old, new
<1>7. /\ IsConfiguration(built) /\ built.rest = moved.rest
      /\ built.agents[1] = changed
      /\ \A b \in DOMAIN moved.agents \ {1} : built.agents[b] = moved.agents[b]
      /\ Last(built.agents) = IF Len(moved.agents) = 1 THEN changed ELSE Last(moved.agents)
    BY <1>2, <1>5, <1>6, EditedIs
<1>8. ASSUME NEW b \in DOMAIN source.agents, NEW key \in DOMAIN source.agents[b] \ {Legacy},
             NEW i \in DOMAIN source.agents[b][key]
      PROVE  OnlyModels(source.agents[b][key][i], built.agents[b][key][i])
    <2>1. CASE b = 1
        <3>1. key \in DOMAIN block /\ block[key] = source.agents[b][key]
            BY <1>4, <2>1 DEF first
        <3>2. OnlyModels(block[key][i], changed[key][i])
            BY <1>5, <3>1
        <3> QED BY <1>7, <2>1, <3>1, <3>2
    <2>2. CASE b # 1
        <3>1. built.agents[b] = source.agents[b]
            BY <1>2, <1>7, <2>2
        <3> QED BY <3>1 DEF OnlyModels
    <2> QED BY <2>1, <2>2
\* What every agent means afterwards, in terms of what the moved text means.
<1>9. /\ DOMAIN new = DOMAIN Agents(moved)
      /\ \A key \in DOMAIN new :
            IF key \in Approved
            THEN Agents(moved)[key] \in Meanings /\ new[key] = [Agents(moved)[key] EXCEPT !.model = desired[key]]
            ELSE new[key] = Agents(moved)[key]
    <2> DEFINE before == Last(moved.agents)
               after == Last(built.agents)
    <2>1. /\ IsBlock(before) /\ DOMAIN Agents(moved) = DOMAIN before
          /\ \A key \in DOMAIN before : /\ Agents(moved)[key] = Meant(Last(before[key]))
                                        /\ Last(before[key]) \in Texts
                                        /\ Last(before[key]) = before[key][Len(before[key])]
        BY <1>2, AgentsAre, ConfigurationIs
    <2>2. /\ DOMAIN new = DOMAIN after
          /\ \A key \in DOMAIN after : /\ new[key] = Meant(Last(after[key]))
                                       /\ Last(after[key]) \in Texts
                                       /\ Last(after[key]) = after[key][Len(after[key])]
        BY <1>7, AgentsAre DEF new
    <2>3. \/ after = before
          \/ before = block /\ after = changed
        <3>1. CASE Len(moved.agents) = 1
            BY <1>7, <3>1 DEF Last, block
        <3>2. CASE Len(moved.agents) # 1
            BY <1>7, <3>2
        <3> QED BY <3>1, <3>2
    <2>4. Approved \subseteq DOMAIN before
        BY <1>1, <2>1 DEF WellFormed
    <2> HIDE DEF before, after
    <2>5. DOMAIN after = DOMAIN before
        BY <1>5, <2>3, <2>4
    <2>6. ASSUME NEW key \in DOMAIN before
          PROVE  /\ OnlyModels(Last(before[key]), Last(after[key]))
                 /\ key \notin Approved => after[key] = before[key]
        <3>1. CASE after = before
            BY <3>1 DEF OnlyModels
        <3>2. CASE before = block /\ after = changed
            <4>1. Len(before[key]) \in DOMAIN before[key]
                <5>1. before[key] \in Seq(Texts) /\ before[key] # <<>>
                    BY <2>1, BlockIs
                <5>2. Len(before[key]) \in Nat \ {0} /\ DOMAIN before[key] = 1..Len(before[key])
                    BY <5>1, EndsOf
                <5> QED BY <5>2
            <4>2. Len(after[key]) = Len(before[key])
                BY <1>5, <3>2
            <4> QED BY <1>5, <2>1, <2>2, <2>5, <3>2, <4>1, <4>2
        <3> QED BY <2>3, <3>1, <3>2
    <2>7. ASSUME NEW key \in DOMAIN before, key \in Approved
          PROVE  Agents(moved)[key] \in Meanings /\ new[key] = [Agents(moved)[key] EXCEPT !.model = desired[key]]
        <3> DEFINE was == Last(before[key])
                   is == Last(after[key])
        <3>1. Agents(moved)[key] = Meant(was) /\ Meant(was) # NotAnObject /\ was \in Texts
            BY <1>1, <2>1, <2>7 DEF WellFormed
        <3>2. new[key] = Meant(is) /\ Meant(is) # NotAnObject /\ is \in Texts /\ Meant(is).model = desired[key]
            BY <1>1, <2>2, <2>5, <2>7 DEF Verified, WellFormed
        <3>3. OnlyModels(was, is)
            BY <2>6
        <3> HIDE DEF was, is
        <3>4. was # NotAnObject /\ is # NotAnObject /\ Meant(was) \in Meanings /\ Meant(is) \in Meanings
            BY <3>1, <3>2, MeantIs
        <3>5. Meant(is).own = Meant(was).own
            BY <3>1, <3>2, <3>3, <3>4, MeantIs DEF OnlyModels
        <3>6. \A m \in Meanings : m = [model |-> m.model, own |-> m.own]
            BY DEF Meanings
        <3>7. Meant(is) = [model |-> desired[key], own |-> Meant(was).own]
            BY <3>2, <3>4, <3>5, <3>6
        <3>8. [Meant(was) EXCEPT !.model = desired[key]] = [model |-> desired[key], own |-> Meant(was).own]
            BY <3>4, <3>6
        <3> QED BY <3>1, <3>2, <3>4, <3>7, <3>8
    <2> QED BY <2>1, <2>2, <2>5, <2>6, <2>7
<1>10. /\ DOMAIN new \ {Legacy} = DOMAIN old \ {Legacy}
       /\ Legacy \in DOMAIN new => Len(first[Legacy]) > 1
       /\ \A key \in DOMAIN new \ {Legacy} :
            IF key \in Approved
            THEN old[key] \in Meanings /\ new[key] = [old[key] EXCEPT !.model = desired[key]]
            ELSE new[key] = old[key]
    BY <1>4, <1>9
<1> QED BY <1>2, <1>7, <1>8, <1>10 DEF new, built, old, first

-----------------------------------------------------------------------------
Fields == {"pc", "plan", "token", "begun", "meddled", "outcome"}

Shaped == /\ DOMAIN call = Services
          /\ call = [s \in Services |-> call[s]]
          /\ \A s \in Services : /\ DOMAIN call[s] = Fields
                                 /\ call[s] = [field \in Fields |-> call[s][field]]

InFlight == {"confirmed", "leased", "backing up", "backed up", "replacing"}

\* Nobody carries a plan whose source the preview would not have accepted.
Acceptable(plan) == "source" \in DOMAIN plan /\ PreviewAccepts(plan.source)

SourcesAccepted ==
    /\ \A c \in agreed : Acceptable(c.plan)
    /\ \A s \in Services : call[s].pc # "idle" => Acceptable(call[s].plan)

Issued == 1..Cardinality(agreed)

\* A token is issued once; it is honoured by one service, or carried by one call
\* that took it for the plan and in the time it was issued for, or spent.
TokensApart ==
    /\ now \in Nat /\ IsFiniteSet(agreed)
    /\ \A c \in agreed : c.token \in Issued /\ c.expires \in Nat
    /\ confirmations \in [Services -> SUBSET agreed]
    /\ spent \subseteq Issued
    /\ \A s \in Services : \A c \in confirmations[s] :
        /\ c.service = s
        /\ c.token \notin spent
        /\ \A t \in Services : /\ call[t].pc \in InFlight => call[t].token # c.token
                               /\ t # s => \A k \in confirmations[t] : k.token # c.token

Carried(s) ==
    call[s].pc \in InFlight =>
        /\ call[s].token \notin spent
        /\ \A t \in Services : t # s /\ call[t].pc \in InFlight => call[t].token # call[s].token
        /\ ValidPlan(call[s].plan)
        /\ \E c \in agreed : /\ c.service = s /\ c.token = call[s].token /\ c.plan = call[s].plan
                             /\ call[s].begun <= c.expires

\* Who goes on after looking at the file holds a plan that can be built.
Buildable(s) ==
    call[s].pc \in {"backing up", "backed up", "replacing"} =>
        ~BuildRefuses(call[s].plan.source, call[s].plan.desired)

IInv ==
    /\ Shaped
    /\ SourcesAccepted
    /\ TokensApart
    /\ \A s \in Services : Carried(s)
    /\ \A s \in Services : Buildable(s)

-----------------------------------------------------------------------------
\* The one change of a record of a call, and what it keeps.
LEMMA GotoIs ==
    ASSUME Shaped, NEW s \in Services, NEW pc, Goto(s, pc)
    PROVE  /\ Shaped'
           /\ call'[s].pc = pc
           /\ \A field \in Fields \ {"pc"} : call'[s][field] = call[s][field]
           /\ \A t \in Services \ {s} : call'[t] = call[t]
BY DEF Goto, Shaped, Fields

\* The same for a call that ends under the lease.
LEMMA EndIs ==
    ASSUME Shaped, NEW s \in Services, NEW outcome, End(s, outcome)
    PROVE  /\ Shaped'
           /\ call'[s].pc = "releasing" /\ call'[s].outcome = outcome
           /\ \A field \in Fields \ {"pc", "outcome"} : call'[s][field] = call[s][field]
           /\ \A t \in Services \ {s} : call'[t] = call[t]
BY DEF End, Shaped, Fields

\* The same for the mark a person's edit leaves.
LEMMA EditIs ==
    ASSUME Shaped, NEW content, Edit(content)
    PROVE  /\ Shaped'
           /\ \A s \in Services : \A field \in Fields \ {"meddled"} : call'[s][field] = call[s][field]
<1> DEFINE noted(s) == call[s].meddled \/ call[s].pc \in {"replacing", "rolling back", "releasing"}
<1>1. call' = [s \in Services |-> [call[s] EXCEPT !.meddled = noted(s)]]
    BY DEF Edit
<1> HIDE DEF noted
<1>2. DOMAIN call' = Services /\ call' = [s \in Services |-> call'[s]]
    BY <1>1
<1>3. ASSUME NEW s \in Services
      PROVE  /\ DOMAIN call'[s] = Fields
             /\ call'[s] = [field \in Fields |-> call'[s][field]]
             /\ \A field \in Fields \ {"meddled"} : call'[s][field] = call[s][field]
    <2>1. call'[s] = [call[s] EXCEPT !.meddled = noted(s)]
        BY <1>1
    <2> QED BY <2>1 DEF Shaped, Fields
<1> QED BY <1>2, <1>3 DEF Shaped

\* The same for a call that is refused or over.
LEMMA RefuseIs ==
    ASSUME Shaped, NEW s \in Services, Refuse(s)
    PROVE  /\ Shaped'
           /\ call'[s] = Free
           /\ \A t \in Services \ {s} : call'[t] = call[t]
BY DEF Refuse, Shaped, Fields, Free

-----------------------------------------------------------------------------
\* A step of a call that neither takes a token nor spends it.
Quiet(s) ==
    /\ UNCHANGED <<confirmations, agreed, spent, now>>
    /\ Shaped'
    /\ \A t \in Services \ {s} : call'[t] = call[t]
    /\ Buildable(s)'
    /\ \/ call'[s] = Free
       \/ /\ call[s].pc # "idle"
          /\ call'[s].plan = call[s].plan /\ call'[s].token = call[s].token
          /\ call'[s].begun = call[s].begun
          /\ call'[s].pc \in InFlight => call[s].pc \in InFlight

\* A quiet step keeps what is known of confirmations and calls.
LEMMA QuietKeeps ==
    ASSUME IInv, NEW s \in Services, Quiet(s)
    PROVE  IInv'
<1>1. \A t \in Services : call'[t].pc \in InFlight =>
        /\ call[t].pc \in InFlight
        /\ call'[t].plan = call[t].plan /\ call'[t].token = call[t].token
        /\ call'[t].begun = call[t].begun
    <2> SUFFICES ASSUME NEW t \in Services, call'[t].pc \in InFlight
                 PROVE  /\ call[t].pc \in InFlight
                        /\ call'[t].plan = call[t].plan /\ call'[t].token = call[t].token
                        /\ call'[t].begun = call[t].begun
        OBVIOUS
    <2>1. CASE t # s
        BY <2>1 DEF Quiet
    <2>2. CASE t = s
        <3>1. Free.pc \notin InFlight
            BY DEF Free, InFlight
        <3> QED BY <2>2, <3>1 DEF Quiet
    <2> QED BY <2>1, <2>2
<1>2. SourcesAccepted'
    BY DEF Quiet, IInv, SourcesAccepted, Free
<1>5. \A t \in Services : Buildable(t)'
    BY DEF Quiet, IInv, Buildable
<1>3. TokensApart'
    BY <1>1 DEF Quiet, IInv, TokensApart, Issued
<1>4. \A t \in Services : Carried(t)'
    BY <1>1 DEF Quiet, IInv, Carried
<1> QED BY <1>2, <1>3, <1>4, <1>5 DEF Quiet, IInv

\* The steps of an apply beside its writes are quiet.
LEMMA QuietSteps ==
    ASSUME IInv, NEW s \in Services,
           \/ Decline(s) \/ TakeLease(s) \/ ReadLatest(s) \/ Backup(s) \/ Reread(s)
           \/ Rollback(s) \/ RollbackFails(s) \/ Release(s)
    PROVE  Quiet(s)
<1>0. Shaped /\ Buildable(s) /\ DOMAIN call[s] = Fields
    BY DEF IInv, Shaped
<1>1. ASSUME Refuse(s), UNCHANGED <<confirmations, agreed, spent, now>> PROVE Quiet(s)
    <2>1. Free.pc = "idle"
        BY DEF Free
    <2> QED BY <1>0, <1>1, <2>1, RefuseIs DEF Quiet, Buildable
<1>2. ASSUME NEW pc, Goto(s, pc), UNCHANGED <<confirmations, agreed, spent, now>>, call[s].pc # "idle",
             pc \in InFlight => call[s].pc \in InFlight,
             pc \in {"backing up", "backed up", "replacing"} =>
                ~BuildRefuses(call[s].plan.source, call[s].plan.desired)
      PROVE  Quiet(s)
    BY <1>0, <1>2, GotoIs DEF Quiet, Fields, Buildable
<1>3. ASSUME NEW outcome, End(s, outcome), UNCHANGED <<confirmations, agreed, spent, now>>,
             call[s].pc # "idle"
      PROVE  Quiet(s)
    BY <1>0, <1>3, EndIs DEF Quiet, Fields, InFlight, Buildable
<1>4. CASE Decline(s)
    BY <1>1, <1>4 DEF Decline
<1>5. CASE TakeLease(s)
    <2>1. UNCHANGED <<confirmations, agreed, spent, now>> /\ call[s].pc = "confirmed"
          /\ (Goto(s, "leased") \/ Refuse(s))
        BY <1>5 DEF TakeLease
    <2> QED BY <1>1, <1>2, <2>1 DEF InFlight
<1>6. CASE ReadLatest(s)
    <2>1. /\ UNCHANGED <<confirmations, agreed, spent, now>> /\ call[s].pc = "leased"
          /\ \/ \E outcome : End(s, outcome)
             \/ Goto(s, "backing up") /\ ~BuildRefuses(call[s].plan.source, call[s].plan.desired)
        BY <1>6 DEF ReadLatest
    <2> QED BY <1>2, <1>3, <2>1 DEF InFlight
<1>7. CASE Backup(s)
    <2>1. UNCHANGED <<confirmations, agreed, spent, now>> /\ call[s].pc = "backing up"
          /\ (End(s, "no backup") \/ Goto(s, "backed up"))
        BY <1>7 DEF Backup
    <2> QED BY <1>0, <1>2, <1>3, <2>1 DEF InFlight, Buildable
<1>8. CASE Reread(s)
    <2>1. UNCHANGED <<confirmations, agreed, spent, now>> /\ call[s].pc = "backed up"
          /\ (End(s, "changed after preview") \/ Goto(s, "replacing"))
        BY <1>8 DEF Reread
    <2> QED BY <1>0, <1>2, <1>3, <2>1 DEF InFlight, Buildable
<1>9. CASE Rollback(s)
    BY <1>3, <1>9 DEF Rollback
<1>10. CASE RollbackFails(s)
    BY <1>3, <1>10 DEF RollbackFails
<1>11. CASE Release(s)
    BY <1>1, <1>11 DEF Release
<1> QED BY <1>4, <1>5, <1>6, <1>7, <1>8, <1>9, <1>10, <1>11

\* A write spends the token and ends the flight.
LEMMA WriteKeeps ==
    ASSUME IInv, NEW s \in Services, Replace(s) \/ ReplaceFails(s)
    PROVE  IInv'
<1>1. /\ UNCHANGED <<confirmations, agreed, now>> /\ call[s].pc = "replacing"
      /\ (spent' = spent \/ spent' = spent \cup {call[s].token})
      /\ End(s, "applied") \/ Goto(s, "rolling back")
    BY DEF Replace, ReplaceFails
<1>2. /\ Shaped' /\ DOMAIN call[s] = Fields
      /\ \A t \in Services \ {s} : call'[t] = call[t]
      /\ call'[s].pc \in {"releasing", "rolling back"}
      /\ call'[s].plan = call[s].plan
    <2>1. Shaped /\ DOMAIN call[s] = Fields
        BY DEF IInv, Shaped
    <2>2. CASE End(s, "applied")
        BY <2>1, <2>2, EndIs DEF Fields
    <2>3. CASE Goto(s, "rolling back")
        BY <2>1, <2>3, GotoIs DEF Fields
    <2> QED BY <1>1, <2>2, <2>3
<1>3. call[s].token \in Issued
    BY <1>1 DEF IInv, Carried, InFlight, TokensApart
<1>4. SourcesAccepted'
    BY <1>1, <1>2 DEF IInv, SourcesAccepted
<1>5. \A t \in Services : call'[t].pc \in InFlight => t # s /\ call[t].pc \in InFlight /\ call'[t] = call[t]
    BY <1>2 DEF InFlight
<1>6. TokensApart'
    <2>1. \A t \in Services : \A c \in confirmations[t] : c.token # call[s].token
        <3>1. call[s].pc \in InFlight
            BY <1>1 DEF InFlight
        <3> QED BY <3>1 DEF IInv, TokensApart
    <2>2. Issued' = Issued
        BY <1>1 DEF Issued
    <2>3. spent' \subseteq Issued
        <3>1. spent \subseteq Issued
            BY DEF IInv, TokensApart
        <3> QED BY <1>1, <1>3, <3>1
    <2>4. \A t \in Services : \A c \in confirmations[t] : c.token \notin spent'
        <3>1. \A t \in Services : \A c \in confirmations[t] : c.token \notin spent
            BY DEF IInv, TokensApart
        <3>2. spent' \subseteq spent \cup {call[s].token}
            BY <1>1
        <3> QED BY <2>1, <3>1, <3>2
    <2>5. \A t \in Services : call'[t].pc \in InFlight => call[t].pc \in InFlight /\ call'[t].token = call[t].token
        BY <1>5
    <2>6. \A t \in Services : \A c \in confirmations'[t] :
            /\ c.service = t /\ c.token \notin spent'
            /\ \A u \in Services : /\ call'[u].pc \in InFlight => call'[u].token # c.token
                                   /\ u # t => \A k \in confirmations'[u] : k.token # c.token
        <3>1. confirmations' = confirmations
            BY <1>1
        <3>2. ASSUME NEW t \in Services, NEW c \in confirmations[t]
              PROVE  /\ c.service = t /\ c.token \notin spent'
                     /\ \A u \in Services :
                        /\ call'[u].pc \in InFlight => call'[u].token # c.token
                        /\ u # t => \A k \in confirmations[u] : k.token # c.token
            <4>1. /\ c.service = t
                  /\ \A u \in Services : /\ call[u].pc \in InFlight => call[u].token # c.token
                                         /\ u # t => \A k \in confirmations[u] : k.token # c.token
                BY DEF IInv, TokensApart
            <4> QED BY <2>4, <2>5, <4>1
        <3> QED BY <3>1, <3>2
    <2>7. /\ now' \in Nat /\ IsFiniteSet(agreed')
          /\ \A c \in agreed' : c.token \in Issued' /\ c.expires \in Nat
          /\ confirmations' \in [Services -> SUBSET agreed']
        BY <1>1, <2>2 DEF IInv, TokensApart
    <2> QED BY <2>2, <2>3, <2>6, <2>7 DEF TokensApart
<1>7. ASSUME NEW t \in Services PROVE Carried(t)'
    <2>1. t # s /\ call[t].pc \in InFlight => call[t].token # call[s].token
        BY <1>1 DEF IInv, Carried, InFlight
    <2>2. agreed' = agreed /\ (spent' = spent \/ spent' = spent \cup {call[s].token})
        BY <1>1
    <2>3. SUFFICES ASSUME call'[t].pc \in InFlight
                   PROVE  Carried(t)'
        BY DEF Carried
    <2>4. t # s /\ call[t].pc \in InFlight /\ call'[t] = call[t] /\ Carried(t)
        BY <1>5, <2>3 DEF IInv
    <2>5. call[t].token \notin spent'
        BY <2>1, <2>2, <2>4 DEF Carried
    <2> QED BY <1>5, <2>2, <2>4, <2>5 DEF Carried
<1>8. \A t \in Services : Buildable(t)'
    BY <1>5 DEF IInv, Buildable, InFlight
<1> QED BY <1>2, <1>4, <1>6, <1>7, <1>8 DEF IInv

\* A preview shows a plan of a source that it accepted.
LEMMA PreviewKeeps ==
    ASSUME IInv, NEW s \in Services, NEW name, Preview(s, name)
    PROVE  IInv'
<1> DEFINE shown == [Free EXCEPT !.pc = "shown", !.plan = Plan(Get(name), config)]
<1>1. /\ UNCHANGED <<confirmations, agreed, spent, now>>
      /\ PreviewAccepts(config)
      /\ call' = [call EXCEPT ![s] = shown]
    BY DEF Preview
<1>2. /\ DOMAIN shown = Fields /\ shown = [field \in Fields |-> shown[field]]
      /\ shown.pc = "shown" /\ shown.plan = Plan(Get(name), config)
    BY DEF Free, Fields
<1> HIDE DEF shown
<1>3. Shaped' /\ call'[s] = shown /\ \A t \in Services \ {s} : call'[t] = call[t]
    BY <1>1, <1>2 DEF IInv, Shaped
<1>a. Acceptable(Plan(Get(name), config))
    BY <1>1 DEF Acceptable, Plan
<1>4. SourcesAccepted'
    BY <1>1, <1>2, <1>3, <1>a DEF IInv, SourcesAccepted
<1>5. \A t \in Services : call'[t].pc \in InFlight => call[t].pc \in InFlight /\ call'[t] = call[t]
    BY <1>2, <1>3 DEF InFlight
<1>6. TokensApart'
    BY <1>1, <1>5 DEF IInv, TokensApart, Issued
<1>7. \A t \in Services : Carried(t)'
    BY <1>1, <1>5 DEF IInv, Carried
<1>8. \A t \in Services : Buildable(t)'
    BY <1>5 DEF IInv, Buildable, InFlight
<1> QED BY <1>3, <1>4, <1>6, <1>7, <1>8 DEF IInv

\* A new token is one more than all before.
LEMMA AuthorizeKeeps ==
    ASSUME IInv, NEW s \in Services, Authorize(s)
    PROVE  IInv'
<1> DEFINE count == Cardinality(agreed)
           new == [service |-> s, token |-> count + 1, plan |-> call[s].plan, expires |-> now + Lifetime]
<1>1. /\ UNCHANGED <<spent, now>> /\ call[s].pc = "shown" /\ Goto(s, "idle")
      /\ confirmations' = [confirmations EXCEPT ![s] = @ \cup {new}]
      /\ agreed' = agreed \cup {new}
    BY DEF Authorize
<1>2. count \in Nat /\ IsFiniteSet(agreed) /\ now + Lifetime \in Nat
    BY FS_CardinalityType, ApplyAssumption DEF IInv, TokensApart
<1>3. new.service = s /\ new.token = count + 1 /\ new.plan = call[s].plan /\ new.expires \in Nat
    BY <1>2
<1>4. \A c \in agreed : c.token \in 1..count
    BY DEF IInv, TokensApart, Issued
<1>5. new \notin agreed
    BY <1>2, <1>3, <1>4
<1>6. IsFiniteSet(agreed') /\ Cardinality(agreed') = count + 1
    BY <1>1, <1>2, <1>5, FS_AddElement
<1>7. Issued' = 1..(count + 1) /\ Issued = 1..count
    BY <1>6 DEF Issued
<1> HIDE DEF new, count
<1>8. Shaped' /\ call'[s].pc = "idle"
      /\ \A t \in Services \ {s} : call'[t] = call[t]
    BY <1>1, GotoIs DEF IInv, Fields
<1>9. \A t \in Services : call'[t].pc \in InFlight => call[t].pc \in InFlight /\ call'[t] = call[t]
    BY <1>8 DEF InFlight
<1>10. SourcesAccepted'
    BY <1>1, <1>3, <1>8 DEF IInv, SourcesAccepted
<1>11. confirmations'[s] = confirmations[s] \cup {new}
       /\ \A t \in Services \ {s} : confirmations'[t] = confirmations[t]
    BY <1>1 DEF IInv, TokensApart
<1>12. \A c \in agreed : c.token # new.token
    BY <1>2, <1>3, <1>4
<1>13. TokensApart'
    <2>1. \A c \in agreed' : c.token \in Issued' /\ c.expires \in Nat
        BY <1>1, <1>2, <1>3, <1>4, <1>7 DEF IInv, TokensApart
    <2>2. spent' \subseteq Issued' /\ new.token \notin spent
        BY <1>1, <1>2, <1>3, <1>7 DEF IInv, TokensApart
    <2>3. \A t \in Services : call[t].pc \in InFlight => call[t].token # new.token
        BY <1>12 DEF IInv, Carried
    <2>4. \A t \in Services : \A c \in confirmations'[t] : c \in confirmations[t] \/ (t = s /\ c = new)
        BY <1>11
    <2>5. \A t \in Services : confirmations[t] \subseteq agreed
        BY DEF IInv, TokensApart
    <2>6. ASSUME NEW t \in Services, NEW c \in confirmations'[t]
          PROVE  /\ c.service = t /\ c.token \notin spent'
                 /\ \A u \in Services : /\ call'[u].pc \in InFlight => call'[u].token # c.token
                                        /\ u # t => \A k \in confirmations'[u] : k.token # c.token
        <3>1. CASE c \in confirmations[t]
            BY <1>1, <1>9, <1>12, <2>4, <2>5, <3>1 DEF IInv, TokensApart
        <3>2. CASE t = s /\ c = new
            BY <1>1, <1>3, <1>9, <1>11, <1>12, <2>2, <2>3, <2>5, <3>2
        <3> QED BY <2>4, <3>1, <3>2
    <2>7. confirmations' \in [Services -> SUBSET agreed']
        BY <1>1 DEF IInv, TokensApart
    <2> QED BY <1>1, <1>6, <2>1, <2>2, <2>6, <2>7 DEF IInv, TokensApart
<1>14. \A t \in Services : Carried(t)'
    BY <1>1, <1>9 DEF IInv, Carried
<1>15. \A t \in Services : Buildable(t)'
    BY <1>9 DEF IInv, Buildable, InFlight
<1> QED BY <1>8, <1>10, <1>13, <1>14, <1>15 DEF IInv

\* The token a call takes leaves its service's confirmations with the call.
LEMMA ApplyKeeps ==
    ASSUME IInv, NEW s \in Services, NEW c \in agreed, NEW body \in Bodies(c.plan), NEW token,
           Apply(s, body, c.plan, token)
    PROVE  IInv'
<1> DEFINE taken == [Free EXCEPT !.pc = "confirmed", !.plan = body, !.token = token, !.begun = now]
           left  == {k \in confirmations[s] : k.token # token}
<1>1. /\ UNCHANGED <<agreed, spent, now>> /\ call[s].pc = "idle"
      /\ confirmations' = [confirmations EXCEPT ![s] = left]
      /\ \/ Honoured(s, body, c.plan, token) /\ call' = [call EXCEPT ![s] = taken]
         \/ Refuse(s)
    BY DEF Apply, Withdraw
<1>2. /\ DOMAIN taken = Fields /\ taken = [field \in Fields |-> taken[field]]
      /\ taken.pc = "confirmed" /\ taken.plan = body /\ taken.token = token
      /\ taken.begun = now
    BY DEF Free, Fields
<1>3. Acceptable(body)
    <2>1. Acceptable(c.plan)
        BY DEF IInv, SourcesAccepted
    <2>2. CASE body = c.plan
        BY <2>1, <2>2
    <2>3. CASE body # c.plan
        <3>1. PICK k \in agreed :
                body = [c.plan EXCEPT !.profile = k.plan.profile, !.desired = k.plan.desired,
                                      !.changes = Differing(c.plan.current, k.plan.desired)]
            BY <2>3 DEF Bodies
        <3>2. DOMAIN body = DOMAIN c.plan /\ body.source = c.plan.source
            BY <2>1, <3>1 DEF Acceptable
        <3> QED BY <2>1, <3>2 DEF Acceptable
    <2> QED BY <2>2, <2>3
<1> HIDE DEF taken
<1>4. Free.pc = "idle"
    BY DEF Free
<1>5. /\ Shaped'
      /\ \A t \in Services \ {s} : call'[t] = call[t]
      /\ call'[s] = Free \/ (call'[s] = taken /\ Honoured(s, body, c.plan, token))
    <2>1. CASE Refuse(s)
        BY <2>1, RefuseIs DEF IInv
    <2>2. CASE Honoured(s, body, c.plan, token) /\ call' = [call EXCEPT ![s] = taken]
        BY <1>2, <2>2 DEF IInv, Shaped
    <2> QED BY <1>1, <2>1, <2>2
<1>6. SourcesAccepted'
    BY <1>1, <1>2, <1>3, <1>4, <1>5 DEF IInv, SourcesAccepted
<1>7. /\ confirmations' \in [Services -> SUBSET agreed]
      /\ confirmations'[s] = left
      /\ \A t \in Services \ {s} : confirmations'[t] = confirmations[t]
    BY <1>1 DEF IInv, TokensApart
<1>8. \A t \in Services : \A k \in confirmations'[t] :
        /\ k \in confirmations[t] /\ k.service = t /\ k.token \notin spent
        /\ \A u \in Services : /\ call[u].pc \in InFlight => call[u].token # k.token
                               /\ u # t => \A l \in confirmations[u] : l.token # k.token
    BY <1>7 DEF IInv, TokensApart
<1>9. \A t \in Services : call'[t].pc \in InFlight =>
        \/ t # s /\ call[t].pc \in InFlight /\ call'[t] = call[t]
        \/ t = s /\ call'[t] = taken /\ Honoured(s, body, c.plan, token)
    BY <1>4, <1>5 DEF InFlight
<1>10. Honoured(s, body, c.plan, token) =>
        /\ ValidPlan(body)
        /\ \E k \in confirmations[s] : /\ k \in agreed /\ k.service = s /\ k.token = token
                                      /\ k.plan = body /\ now <= k.expires
    <2> SUFFICES ASSUME Honoured(s, body, c.plan, token)
                 PROVE  /\ ValidPlan(body)
                        /\ \E k \in confirmations[s] : /\ k \in agreed /\ k.service = s /\ k.token = token
                                                      /\ k.plan = body /\ now <= k.expires
        OBVIOUS
    <2>1. PICK k \in confirmations[s] : k.token = token /\ k.plan = c.plan /\ k.expires >= now
        BY DEF Honoured
    <2>2. k \in agreed /\ k.service = s /\ k.expires \in Nat /\ now \in Nat
        BY DEF IInv, TokensApart
    <2>3. now <= k.expires
        BY <2>1, <2>2
    <2> QED BY <2>1, <2>2, <2>3 DEF Honoured
<1>11. Honoured(s, body, c.plan, token) =>
        \A t \in Services : \A k \in confirmations'[t] : k.token # token
    <2> SUFFICES ASSUME Honoured(s, body, c.plan, token), NEW t \in Services, NEW k \in confirmations'[t]
                 PROVE  k.token # token
        OBVIOUS
    <2>1. CASE t = s
        BY <1>7, <2>1
    <2>2. CASE t # s
        BY <1>8, <1>10, <2>2
    <2> QED BY <2>1, <2>2
<1>12. TokensApart'
    <2>1. ASSUME NEW t \in Services, NEW k \in confirmations'[t]
          PROVE  /\ k.service = t /\ k.token \notin spent'
                 /\ \A u \in Services : /\ call'[u].pc \in InFlight => call'[u].token # k.token
                                        /\ u # t => \A l \in confirmations'[u] : l.token # k.token
        BY <1>1, <1>2, <1>8, <1>9, <1>11
    <2>2. Issued' = Issued
        BY <1>1 DEF Issued
    <2>3. /\ now' \in Nat /\ IsFiniteSet(agreed') /\ spent' \subseteq Issued
          /\ \A k \in agreed' : k.token \in Issued /\ k.expires \in Nat
        BY <1>1 DEF IInv, TokensApart
    <2>4. confirmations' \in [Services -> SUBSET agreed']
        BY <1>1, <1>7
    <2> QED BY <2>1, <2>2, <2>3, <2>4 DEF TokensApart
<1>13. ASSUME NEW t \in Services PROVE Carried(t)'
    <2>1. Honoured(s, body, c.plan, token) =>
            token \notin spent /\ \A u \in Services : call[u].pc \in InFlight => call[u].token # token
        BY <1>10 DEF IInv, TokensApart
    <2>2. CASE t # s
        BY <1>1, <1>2, <1>9, <2>1, <2>2 DEF IInv, Carried
    <2>3. CASE t = s
        BY <1>1, <1>2, <1>9, <1>10, <2>1, <2>3 DEF Carried
    <2> QED BY <2>2, <2>3
<1>14. \A t \in Services : Buildable(t)'
    BY <1>2, <1>9 DEF IInv, Buildable, InFlight
<1> QED BY <1>5, <1>6, <1>12, <1>13, <1>14 DEF IInv

\* A dead process honours nothing, and its call is gone.
LEMMA CrashKeeps ==
    ASSUME IInv, NEW s \in Services, Crash(s)
    PROVE  IInv'
<1>1. /\ UNCHANGED <<agreed, spent, now>> /\ Refuse(s)
      /\ confirmations' = [confirmations EXCEPT ![s] = {}]
    BY DEF Crash
<1>2. Shaped' /\ call'[s] = Free /\ \A t \in Services \ {s} : call'[t] = call[t]
    BY <1>1, RefuseIs DEF IInv
<1>3. Free.pc = "idle"
    BY DEF Free
<1>4. SourcesAccepted'
    BY <1>1, <1>2, <1>3 DEF IInv, SourcesAccepted
<1>5. \A t \in Services : call'[t].pc \in InFlight => call[t].pc \in InFlight /\ call'[t] = call[t]
    BY <1>2, <1>3 DEF InFlight
<1>6. confirmations' \in [Services -> SUBSET agreed]
      /\ \A t \in Services : confirmations'[t] \subseteq confirmations[t]
    BY <1>1 DEF IInv, TokensApart
<1>7. TokensApart'
    BY <1>1, <1>5, <1>6 DEF IInv, TokensApart, Issued
<1>8. \A t \in Services : Carried(t)'
    BY <1>1, <1>5 DEF IInv, Carried
<1>9. \A t \in Services : Buildable(t)'
    BY <1>5 DEF IInv, Buildable, InFlight
<1> QED BY <1>2, <1>4, <1>7, <1>8, <1>9 DEF IInv

\* What happens beside the calls touches no call but to note an edit.
LEMMA OthersKeep ==
    ASSUME IInv,
           \/ \E content \in Saved : Edit(content)
           \/ RemoveStaleLease \/ Tick \/ UNCHANGED applyVars
    PROVE  IInv'
<1>1. UNCHANGED <<confirmations, agreed, spent>> /\ now' \in {now, now + 1}
    BY DEF Edit, RemoveStaleLease, Tick, applyVars
<1>2. /\ Shaped'
      /\ \A s \in Services : \A field \in Fields \ {"meddled"} : call'[s][field] = call[s][field]
    <2>1. CASE call' = call
        BY <2>1 DEF IInv, Shaped
    <2>2. CASE \E content \in Saved : Edit(content)
        BY <2>2, EditIs DEF IInv
    <2> QED BY <2>1, <2>2 DEF RemoveStaleLease, Tick, applyVars
<1>3. \A s \in Services : /\ call'[s].pc = call[s].pc /\ call'[s].plan = call[s].plan
                          /\ call'[s].token = call[s].token /\ call'[s].begun = call[s].begun
    BY <1>2 DEF Fields
<1>4. SourcesAccepted'
    BY <1>1, <1>3 DEF IInv, SourcesAccepted
<1>5. TokensApart'
    BY <1>1, <1>3 DEF IInv, TokensApart, Issued
<1>6. \A s \in Services : Carried(s)'
    BY <1>1, <1>3 DEF IInv, Carried
<1>7. \A s \in Services : Buildable(s)'
    BY <1>3 DEF IInv, Buildable
<1> QED BY <1>7, <1>2, <1>4, <1>5, <1>6 DEF IInv

-----------------------------------------------------------------------------
\* IInv is inductive.
LEMMA Invariance == ApplySpec => []IInv
<1>1. ApplyInit => IInv
    <2> SUFFICES ASSUME ApplyInit PROVE IInv
        OBVIOUS
    <2>1. agreed = {} /\ spent = {} /\ now = 0 /\ call = [s \in Services |-> Free]
          /\ confirmations = [s \in Services |-> {}]
        BY DEF ApplyInit
    <2>2. DOMAIN Free = Fields /\ Free = [field \in Fields |-> Free[field]]
          /\ Free.pc = "idle"
        BY DEF Free, Fields
    <2>3. Shaped
        BY <2>1, <2>2 DEF Shaped
    <2>4. SourcesAccepted
        BY <2>1, <2>2 DEF SourcesAccepted
    <2>5. TokensApart
        BY <2>1, FS_EmptySet DEF TokensApart, Issued
    <2>6. (\A s \in Services : Carried(s)) /\ \A s \in Services : Buildable(s)
        BY <2>1, <2>2 DEF Carried, Buildable, InFlight
    <2> QED BY <2>3, <2>4, <2>5, <2>6 DEF IInv
<1>2. IInv /\ [ApplyNext]_vars => IInv'
    <2> SUFFICES ASSUME IInv, [ApplyNext]_vars PROVE IInv'
        OBVIOUS
    <2>1. CASE UNCHANGED vars
        BY <2>1, OthersKeep DEF vars
    <2>2. ASSUME NEW e \in Editors, EditorNext(e) /\ UNCHANGED applyVars PROVE IInv'
        BY <2>2, OthersKeep
    <2>3. ASSUME NEW s \in Services,
                 \/ Decline(s) \/ TakeLease(s) \/ ReadLatest(s) \/ Backup(s) \/ Reread(s)
                 \/ Rollback(s) \/ RollbackFails(s) \/ Release(s)
          PROVE  IInv'
        BY <2>3, QuietSteps, QuietKeeps
    <2>4. ASSUME NEW s \in Services, NEW name \in Names, Preview(s, name) PROVE IInv'
        BY <2>4, PreviewKeeps
    <2>5. ASSUME NEW s \in Services, Authorize(s) PROVE IInv'
        BY <2>5, AuthorizeKeeps
    <2>6. ASSUME NEW s \in Services, NEW c \in agreed, NEW k \in agreed, NEW body \in Bodies(c.plan),
                 Apply(s, body, c.plan, k.token)
          PROVE  IInv'
        BY <2>6, ApplyKeeps
    <2>7. ASSUME NEW s \in Services, Replace(s) \/ ReplaceFails(s) PROVE IInv'
        BY <2>7, WriteKeeps
    <2>8. ASSUME NEW s \in Services, Crash(s) PROVE IInv'
        BY <2>8, CrashKeeps
    <2>9. CASE (\E content \in Saved : Edit(content)) \/ RemoveStaleLease \/ Tick
        BY <2>9, OthersKeep
    <2> QED BY <2>1, <2>2, <2>3, <2>4, <2>5, <2>6, <2>7, <2>8, <2>9 DEF ApplyNext
<1> QED BY <1>1, <1>2, PTL DEF ApplySpec

\* A write of a call that was about to replace the file writes what its plan makes.
LEMMA ReplacingWritesResult ==
    ASSUME IInv, ApplyNext, NEW s \in Services, Writes(s), call[s].pc = "replacing"
    PROVE  config' = Result(s)
<1>1. config' # config /\ call'[s].pc # call[s].pc
    BY DEF Writes
<1>2. \A t \in Services \ {s} : ~(Replace(t) \/ ReplaceFails(t) \/ Rollback(t) \/ RollbackFails(t))
    <2> SUFFICES ASSUME NEW t \in Services \ {s},
                        Replace(t) \/ ReplaceFails(t) \/ Rollback(t) \/ RollbackFails(t)
                 PROVE  FALSE
        OBVIOUS
    <2>1. (\E outcome : End(t, outcome)) \/ Goto(t, "rolling back")
        BY DEF Replace, ReplaceFails, Rollback, RollbackFails
    <2>2. call'[s] = call[s]
        BY <2>1, EndIs, GotoIs DEF IInv
    <2> QED BY <1>1, <2>2
<1>3. \A content \in Saved : ~Edit(content)
    BY <1>1, EditIs DEF IInv, Fields
<1>4. ~Rollback(s) /\ ~RollbackFails(s)
    BY DEF Rollback, RollbackFails
<1>5. \E t \in Services : Replace(t) \/ ReplaceFails(t) \/ Rollback(t) \/ RollbackFails(t)
    BY <1>1, <1>3 DEF ApplyNext, applyVars, Preview, Decline, Authorize, Apply, TakeLease,
        ReadLatest, Backup, Reread, Release, Crash, RemoveStaleLease, Tick
<1>6. Replace(s) \/ ReplaceFails(s)
    BY <1>2, <1>4, <1>5
<1> QED BY <1>1, <1>6 DEF Replace, ReplaceFails

\* However many services, tokens and failures: a plan that reaches the file was
\* confirmed as it is, to the service that writes it, in time, and its token was
\* never used before.
THEOREM WritesAreConfirmed == ApplySpec => AppliedAsConfirmed
<1>1. ASSUME IInv, NEW s \in Services, call[s].pc = "replacing"
      PROVE  /\ call[s].token \notin spent
             /\ \E confirmation \in agreed :
                 /\ confirmation.service = s
                 /\ confirmation.token = call[s].token
                 /\ Result(s) = Built(confirmation.plan.source, confirmation.plan.profile.models)
                 /\ call[s].begun <= confirmation.expires
    BY <1>1 DEF IInv, Carried, InFlight, ValidPlan, Result
<1>2. IInv /\ [ApplyNext]_vars =>
        [\A s \in Services :
            (Writes(s) /\ call[s].pc = "replacing") =>
                /\ call[s].token \notin spent
                /\ \E confirmation \in agreed :
                    /\ confirmation.service = s
                    /\ confirmation.token = call[s].token
                    /\ config' = Built(confirmation.plan.source, confirmation.plan.profile.models)
                    /\ call[s].begun <= confirmation.expires]_vars
    BY <1>1, ReplacingWritesResult
<1> QED BY <1>2, Invariance, PTL DEF ApplySpec, AppliedAsConfirmed

-----------------------------------------------------------------------------
(* The lease, the backup, and what a call may say of the file. *)

\* Whoever works under a lease works under the one that stands.
Exclusive == \A s \in Services : HoldsLease(s) => lease = s

\* What the call s has come to know, unless a person wrote the file since.
Known(s) ==
    /\ call[s].pc = "replacing" => config = call[s].plan.source
    /\ call[s].pc = "rolling back" => config \in {Result(s), call[s].plan.source}
    /\ call[s].pc = "releasing" =>
        CASE call[s].outcome = "applied"         -> config = Result(s)
          [] call[s].outcome = "failed"          -> config = call[s].plan.source
          [] call[s].outcome = "rollback failed" -> config \in {Result(s), call[s].plan.source}
          [] OTHER                               -> TRUE

Secured(s) ==
    /\ call[s].pc \in {"backed up", "replacing", "rolling back"} => call[s].plan.source \in backups
    /\ ~call[s].meddled => Known(s)

WorkInv == Exclusive /\ \A s \in Services : Secured(s)

\* The others, while s moves: nothing they know changes, for only who holds the
\* lease writes the file.
LEMMA OthersSecured ==
    ASSUME WorkInv, NEW s \in Services,
           \A t \in Services \ {s} : call'[t] = call[t],
           backups \subseteq backups',
           config' # config => HoldsLease(s)
    PROVE  \A t \in Services \ {s} : Secured(t)'
<1> TAKE t \in Services \ {s}
<1>1. Secured(t)
    BY DEF WorkInv
<1>2. CASE config' = config
    BY <1>1, <1>2 DEF Secured, Known, Result
<1>3. CASE config' # config
    <2>1. ~HoldsLease(t)
        BY <1>3 DEF WorkInv, Exclusive
    <2> QED BY <1>1, <2>1 DEF Secured, Known, HoldsLease
<1> QED BY <1>2, <1>3

\* A call that has not looked at the file yet, or is over, knows nothing.
LEMMA UnawareIsSecured ==
    ASSUME NEW s \in Services,
           call'[s].pc \in {"idle", "shown", "confirmed", "leased", "backing up"}
    PROVE  Secured(s)'
BY DEF Secured, Known

\* A free call is idle.
LEMMA FreeIsIdle == Free.pc = "idle"
BY DEF Free

\* What happens to the calls that hold no lease.
LEMMA OutsideWork ==
    ASSUME IInv, WorkInv, NEW s \in Services,
           \/ \E name \in Names : Preview(s, name)
           \/ Decline(s)
           \/ Authorize(s)
           \/ \E c, k \in agreed : \E body \in Bodies(c.plan) : Apply(s, body, c.plan, k.token)
           \/ TakeLease(s)
           \/ Release(s)
           \/ Crash(s)
    PROVE  WorkInv'
<1>1. UNCHANGED <<config, backups>>
    BY DEF Preview, Decline, Authorize, Apply, TakeLease, Release, Crash
<1>2. /\ DOMAIN call' = Services
      /\ \A t \in Services \ {s} : call'[t] = call[t]
      /\ call'[s].pc \in {"idle", "shown", "confirmed", "leased"}
      /\ call'[s].pc = "leased" => lease' = s
    <2>1. Shaped
        BY DEF IInv
    <2>2. CASE Refuse(s)
        BY <2>1, <2>2, RefuseIs, FreeIsIdle DEF Shaped
    <2>3. ASSUME NEW name \in Names, Preview(s, name)
          PROVE  DOMAIN call' = Services /\ (\A t \in Services \ {s} : call'[t] = call[t]) /\ call'[s].pc = "shown"
        BY <2>1, <2>3 DEF Preview, Shaped, Free
    <2>4. CASE Authorize(s)
        BY <2>1, <2>4, GotoIs DEF Authorize, Shaped
    <2>5. CASE TakeLease(s)
        <3>1. Refuse(s) \/ (lease' = s /\ Goto(s, "leased"))
            BY <2>5 DEF TakeLease
        <3> QED BY <2>1, <2>2, <3>1, GotoIs DEF Shaped
    <2>6. ASSUME NEW c \in agreed, NEW body, NEW token, Apply(s, body, c.plan, token)
          PROVE  /\ DOMAIN call' = Services /\ \A t \in Services \ {s} : call'[t] = call[t]
                 /\ call'[s].pc \in {"idle", "confirmed"}
        <3> DEFINE taken == [Free EXCEPT !.pc = "confirmed", !.plan = body, !.token = token, !.begun = now]
        <3>1. Refuse(s) \/ call' = [call EXCEPT ![s] = taken]
            BY <2>6 DEF Apply
        <3>2. taken.pc = "confirmed"
            BY DEF Free
        <3> HIDE DEF taken
        <3>3. CASE Refuse(s)
            BY <2>1, <3>3, RefuseIs, FreeIsIdle DEF Shaped
        <3> QED BY <2>1, <3>1, <3>2, <3>3 DEF Shaped
    <2> QED BY <2>2, <2>3, <2>4, <2>5, <2>6 DEF Decline, Release, Crash
<1>3. \A t \in Services : Secured(t)'
    BY <1>1, <1>2, OthersSecured, UnawareIsSecured
<1>4. Exclusive'
    <2> SUFFICES ASSUME NEW t \in Services, HoldsLease(t)'
                 PROVE  lease' = t
        BY DEF Exclusive
    <2>1. CASE t = s
        BY <1>2, <2>1 DEF HoldsLease
    <2>2. CASE t # s
        <3>1. HoldsLease(t) /\ lease = t
            BY <1>2, <2>2 DEF HoldsLease, WorkInv, Exclusive
        <3>2. CASE Release(s)
            BY <2>2, <3>1, <3>2 DEF Release, HoldsLease, WorkInv, Exclusive
        <3>3. CASE TakeLease(s)
            BY <3>1, <3>3, ApplyAssumption DEF TakeLease
        <3>4. CASE ~Release(s) /\ ~TakeLease(s)
            BY <3>1, <3>4 DEF Preview, Decline, Authorize, Apply, Crash
        <3> QED BY <3>2, <3>3, <3>4
    <2> QED BY <2>1, <2>2
<1> QED BY <1>3, <1>4 DEF WorkInv

\* The call that holds the lease.
LEMMA UnderLease ==
    ASSUME IInv, WorkInv, NEW s \in Services,
           \/ ReadLatest(s) \/ Backup(s) \/ Reread(s)
           \/ Replace(s) \/ ReplaceFails(s) \/ Rollback(s) \/ RollbackFails(s)
    PROVE  WorkInv'
<1> DEFINE source == call[s].plan.source
<1>1. Shaped /\ "plan" \in Fields /\ "meddled" \in Fields /\ "outcome" \in Fields
    BY DEF IInv, Fields
<1>2. /\ lease' = lease /\ backups \subseteq backups'
      /\ call[s].pc \in {"leased", "backing up", "backed up", "replacing", "rolling back"}
    BY DEF ReadLatest, Backup, Reread, Replace, ReplaceFails, Rollback, RollbackFails
<1>3. HoldsLease(s) /\ lease = s /\ Secured(s)
    BY <1>2 DEF HoldsLease, WorkInv, Exclusive
<1>4. (\E outcome : End(s, outcome)) \/ (\E pc : Goto(s, pc))
    BY DEF ReadLatest, Backup, Reread, Replace, ReplaceFails, Rollback, RollbackFails
<1>5. /\ \A t \in Services \ {s} : call'[t] = call[t]
      /\ call'[s].plan = call[s].plan /\ call'[s].meddled = call[s].meddled
    <2>1. ASSUME NEW outcome, End(s, outcome)
          PROVE  /\ \A t \in Services \ {s} : call'[t] = call[t]
                 /\ call'[s].plan = call[s].plan /\ call'[s].meddled = call[s].meddled
        BY <1>1, <2>1, EndIs
    <2>2. ASSUME NEW pc, Goto(s, pc)
          PROVE  /\ \A t \in Services \ {s} : call'[t] = call[t]
                 /\ call'[s].plan = call[s].plan /\ call'[s].meddled = call[s].meddled
        BY <1>1, <2>2, GotoIs
    <2> QED BY <1>4, <2>1, <2>2
<1>6. Exclusive'
    BY <1>2, <1>3, <1>5 DEF Exclusive, HoldsLease, WorkInv
<1>7. Result(s)' = Result(s)
    BY <1>5 DEF Result
<1>8. Secured(s)'
    <2>1. CASE ReadLatest(s)
        <3>1. /\ \/ End(s, "changed after preview") \/ End(s, "unbuildable")
                 \/ Goto(s, "backing up")
            BY <2>1 DEF ReadLatest
        <3>2. \/ call'[s].pc = "releasing" /\ call'[s].outcome \in {"changed after preview", "unbuildable"}
              \/ call'[s].pc = "backing up"
            BY <1>1, <3>1, EndIs, GotoIs
        <3> QED BY <3>2 DEF Secured, Known
    <2>2. CASE Backup(s)
        <3>1. \/ source \in backups' /\ call'[s].pc = "backed up"
              \/ call'[s].pc = "releasing" /\ call'[s].outcome = "no backup"
            BY <1>1, <2>2, EndIs, GotoIs DEF Backup
        <3> QED BY <1>5, <3>1 DEF Secured, Known
    <2>3. CASE Reread(s)
        <3>1. source \in backups' /\ config' = config
            BY <1>2, <1>3, <2>3 DEF Reread, Secured
        <3>2. \/ config = source /\ call'[s].pc = "replacing"
              \/ call'[s].pc = "releasing" /\ call'[s].outcome = "changed after preview"
            BY <1>1, <2>3, EndIs, GotoIs DEF Reread
        <3> QED BY <1>5, <3>1, <3>2 DEF Secured, Known
    <2>4. CASE Replace(s)
        <3>1. config' = Result(s) /\ call'[s].pc = "releasing" /\ call'[s].outcome = "applied"
            BY <1>1, <2>4, EndIs DEF Replace
        <3> QED BY <1>7, <3>1 DEF Secured, Known
    <2>5. CASE ReplaceFails(s)
        <3>1. call'[s].pc = "rolling back" /\ source \in backups' /\ config' \in {Result(s), config}
            BY <1>1, <1>2, <1>3, <2>5, GotoIs DEF ReplaceFails, Secured
        <3>2. ~call[s].meddled => config = source
            BY <1>3, <2>5 DEF ReplaceFails, Secured, Known
        <3> QED BY <1>5, <1>7, <3>1, <3>2 DEF Secured, Known
    <2>6. CASE Rollback(s)
        <3>1. config' = source /\ call'[s].pc = "releasing" /\ call'[s].outcome = "failed"
            BY <1>1, <2>6, EndIs DEF Rollback
        <3> QED BY <1>5, <3>1 DEF Secured, Known
    <2>7. CASE RollbackFails(s)
        <3>1. /\ config' \in {config, source}
              /\ call'[s].pc = "releasing" /\ call'[s].outcome = "rollback failed"
            BY <1>1, <2>7, EndIs DEF RollbackFails
        <3>2. ~call[s].meddled => config \in {Result(s), source}
            BY <1>3, <2>7 DEF RollbackFails, Secured, Known
        <3> QED BY <1>5, <1>7, <3>1, <3>2 DEF Secured, Known
    <2> QED BY <2>1, <2>2, <2>3, <2>4, <2>5, <2>6, <2>7
<1>9. \A t \in Services \ {s} : Secured(t)'
    BY <1>2, <1>3, <1>5, OthersSecured
<1> QED BY <1>6, <1>8, <1>9 DEF WorkInv

\* A person writes the file, and the calls that have looked at it are marked.
LEMMA EditWork ==
    ASSUME IInv, WorkInv, NEW content, Edit(content)
    PROVE  WorkInv'
<1>1. Shaped /\ "pc" \in Fields \ {"meddled"} /\ "plan" \in Fields \ {"meddled"}
    BY DEF IInv, Fields
<1>2. \A s \in Services : call'[s].pc = call[s].pc /\ call'[s].plan = call[s].plan
    BY <1>1, EditIs
<1>3. /\ UNCHANGED <<lease, backups>>
      /\ \A s \in Services : call'[s].pc = call[s].pc /\ call'[s].plan = call[s].plan
    BY <1>2 DEF Edit
<1>4. \A s \in Services : call[s].pc \in {"replacing", "rolling back", "releasing"} => call'[s].meddled
    BY DEF Edit, IInv, Shaped, Fields
<1>5. Exclusive'
    BY <1>3 DEF WorkInv, Exclusive, HoldsLease
<1>6. \A s \in Services : Secured(s)'
    BY <1>3, <1>4 DEF WorkInv, Secured, Known
<1> QED BY <1>5, <1>6 DEF WorkInv

\* So is WorkInv, given IInv.
LEMMA WorkInvariance == ApplySpec => []WorkInv
<1>1. ApplyInit => WorkInv
    BY FreeIsIdle DEF ApplyInit, WorkInv, Exclusive, HoldsLease, Secured, Known
<1>2. IInv /\ WorkInv /\ [ApplyNext]_vars => WorkInv'
    <2> SUFFICES ASSUME IInv, WorkInv, [ApplyNext]_vars PROVE WorkInv'
        OBVIOUS
    <2>1. CASE UNCHANGED <<config, lease, backups, call>>
        BY <2>1 DEF WorkInv, Exclusive, HoldsLease, Secured, Known, Result
    <2>2. CASE RemoveStaleLease
        <3>1. UNCHANGED <<config, backups, call>> /\ \A s \in Services : ~HoldsLease(s)
            BY <2>2 DEF RemoveStaleLease, WorkInv, Exclusive
        <3> QED BY <3>1 DEF WorkInv, Exclusive, HoldsLease, Secured, Known, Result
    <2>3. CASE UNCHANGED vars \/ Tick \/ \E e \in Editors : EditorNext(e) /\ UNCHANGED applyVars
        BY <2>1, <2>3 DEF vars, applyVars, Tick
    <2> QED BY <2>2, <2>3, OutsideWork, UnderLease, EditWork DEF ApplyNext
<1> QED BY <1>1, <1>2, Invariance, PTL DEF ApplySpec

\* Whatever else runs, a call that ends says of the file what is there.
THEOREM OutcomesAreTrue == ApplySpec => []OutcomeIsTrue
<1>1. WorkInv => OutcomeIsTrue
    BY DEF WorkInv, Secured, Known, OutcomeIsTrue
<1> QED BY <1>1, WorkInvariance, PTL

\* Whatever else runs, an apply and its rollback write over nothing that is not kept.
THEOREM NothingIsLost == ApplySpec => NothingLost
<1>1. ASSUME WorkInv, NEW s \in Services, Writes(s)
      PROVE  config \in backups \/ call[s].meddled \/ config = Result(s)
    BY <1>1 DEF WorkInv, Secured, Known, Writes
<1>2. WorkInv /\ [ApplyNext]_vars =>
        [\A s \in Services :
            Writes(s) => \/ config \in backups
                         \/ call[s].meddled
                         \/ config = Result(s)]_vars
    BY <1>1
<1> QED BY <1>2, WorkInvariance, PTL DEF ApplySpec, NothingLost

-----------------------------------------------------------------------------
(* What a preview says of the file, and what becomes of it. *)

Shown(plan) ==
    /\ IsConfiguration(plan.source)
    /\ plan.current = [agent \in Approved |-> Seen(Agents(plan.source))[agent].model]

PlansShown ==
    /\ config = Broken \/ IsConfiguration(config)
    /\ \A c \in agreed : Shown(c.plan)
    /\ \A s \in Services : call[s].pc # "idle" => Shown(call[s].plan)

\* A plan holds what its preview found.
LEMMA ShownInvariance == ApplySpec => []PlansShown
<1>1. ApplyInit => PlansShown
    BY ApplyAssumption DEF ApplyInit, PlansShown, Free
<1>2. IInv /\ PlansShown /\ [ApplyNext]_vars => PlansShown'
    <2> SUFFICES ASSUME IInv, PlansShown, [ApplyNext]_vars PROVE PlansShown'
        OBVIOUS
    <2>1. CASE UNCHANGED <<config, agreed, call>>
        BY <2>1 DEF PlansShown
    <2>2. CASE UNCHANGED vars \/ Tick \/ RemoveStaleLease \/ \E e \in Editors : EditorNext(e) /\ UNCHANGED applyVars
        BY <2>1, <2>2 DEF vars, applyVars, Tick, RemoveStaleLease
    <2>3. ASSUME NEW content \in Saved, Edit(content) PROVE PlansShown'
        <3>1. Shaped /\ "pc" \in Fields \ {"meddled"} /\ "plan" \in Fields \ {"meddled"}
            BY DEF IInv, Fields
        <3>2. \A s \in Services : call'[s].pc = call[s].pc /\ call'[s].plan = call[s].plan
            BY <2>3, <3>1, EditIs
        <3>3. config' = content /\ agreed' = agreed
            BY <2>3 DEF Edit
        <3> QED BY <3>2, <3>3, ApplyAssumption DEF PlansShown
    <2>4. ASSUME NEW s \in Services,
                 \/ Decline(s) \/ TakeLease(s) \/ ReadLatest(s) \/ Backup(s) \/ Reread(s)
                 \/ Rollback(s) \/ RollbackFails(s) \/ Release(s)
          PROVE  PlansShown'
        <3>1. Quiet(s)
            BY <2>4, QuietSteps
        <3>2. config' = config \/ (call[s].pc # "idle" /\ config' = call[s].plan.source)
            BY <2>4 DEF Decline, TakeLease, ReadLatest, Backup, Reread, Rollback, RollbackFails, Release
        <3>3. config' = Broken \/ IsConfiguration(config')
            BY <3>2 DEF PlansShown, Shown
        <3>4. \A t \in Services : call'[t].pc # "idle" => call[t].pc # "idle" /\ call'[t].plan = call[t].plan
            BY <3>1 DEF Quiet, Free
        <3> QED BY <3>1, <3>3, <3>4 DEF PlansShown, Quiet
    <2>5. ASSUME NEW s \in Services, NEW name \in Names, Preview(s, name) PROVE PlansShown'
        <3> DEFINE plan == Plan(Get(name), config)
                   shown == [Free EXCEPT !.pc = "shown", !.plan = plan]
        <3>1. /\ UNCHANGED <<config, agreed>> /\ PreviewAccepts(config)
              /\ call' = [call EXCEPT ![s] = shown]
            BY <2>5 DEF Preview
        <3>2. Shown(plan)
            BY <3>1 DEF Shown, Plan, PlansShown, PreviewAccepts
        <3>3. shown.plan = plan
            BY DEF Free
        <3> HIDE DEF plan, shown
        <3>4. call'[s] = shown /\ \A t \in Services \ {s} : call'[t] = call[t]
            BY <3>1 DEF IInv, Shaped
        <3> QED BY <3>1, <3>2, <3>3, <3>4 DEF PlansShown
    <2>6. ASSUME NEW s \in Services, Authorize(s) PROVE PlansShown'
        <3>1. /\ call[s].pc = "shown" /\ config' = config /\ Goto(s, "idle")
              /\ \A c \in agreed' : c \in agreed \/ c.plan = call[s].plan
            BY <2>6 DEF Authorize
        <3>2. call'[s].pc = "idle" /\ \A t \in Services \ {s} : call'[t] = call[t]
            BY <3>1, GotoIs DEF IInv
        <3> QED BY <3>1, <3>2 DEF PlansShown
    <2>7. ASSUME NEW s \in Services, NEW c \in agreed, NEW body, NEW token, Apply(s, body, c.plan, token)
          PROVE  PlansShown'
        <3> DEFINE taken == [Free EXCEPT !.pc = "confirmed", !.plan = body, !.token = token, !.begun = now]
        <3>1. /\ UNCHANGED <<config, agreed>>
              /\ (body = c.plan /\ call' = [call EXCEPT ![s] = taken]) \/ Refuse(s)
            BY <2>7 DEF Apply, Honoured
        <3>2. taken.plan = body
            BY DEF Free
        <3> HIDE DEF taken
        <3>3. CASE Refuse(s)
            <4>1. call'[s].pc = "idle" /\ \A t \in Services \ {s} : call'[t] = call[t]
                BY <3>3, RefuseIs DEF IInv, Free
            <4> QED BY <3>1, <4>1 DEF PlansShown
        <3>4. CASE body = c.plan /\ call' = [call EXCEPT ![s] = taken]
            <4>1. call'[s] = taken /\ \A t \in Services \ {s} : call'[t] = call[t]
                BY <3>4 DEF IInv, Shaped
            <4> QED BY <3>1, <3>2, <3>4, <4>1 DEF PlansShown
        <3> QED BY <3>1, <3>3, <3>4
    <2>8. ASSUME NEW s \in Services, Replace(s) \/ ReplaceFails(s) PROVE PlansShown'
        <3>1. /\ call[s].pc = "replacing" /\ agreed' = agreed
              /\ config' = config \/ config' = Result(s)
              /\ End(s, "applied") \/ Goto(s, "rolling back")
            BY <2>8 DEF Replace, ReplaceFails
        <3>2. /\ IsConfiguration(call[s].plan.source)
              /\ ~BuildRefuses(call[s].plan.source, call[s].plan.desired)
              /\ \A agent \in Approved : call[s].plan.desired[agent] \in Models
            BY <3>1 DEF PlansShown, Shown, IInv, Buildable, Carried, InFlight, ValidPlan, ValidProfile
        <3>3. IsConfiguration(Result(s))
            BY <3>2, BuiltIs DEF Result
        <3>4. call'[s].plan = call[s].plan /\ \A t \in Services \ {s} : call'[t] = call[t]
            <4>1. Shaped /\ "plan" \in Fields
                BY DEF IInv, Fields
            <4> QED BY <3>1, <4>1, EndIs, GotoIs
        <3> QED BY <3>1, <3>2, <3>3, <3>4 DEF PlansShown
    <2>9. ASSUME NEW s \in Services, Crash(s) PROVE PlansShown'
        <3>1. UNCHANGED <<config, agreed>> /\ Refuse(s)
            BY <2>9 DEF Crash
        <3>2. call'[s].pc = "idle" /\ \A t \in Services \ {s} : call'[t] = call[t]
            BY <3>1, RefuseIs DEF IInv, Free
        <3> QED BY <3>1, <3>2 DEF PlansShown
    <2> QED BY <2>2, <2>3, <2>4, <2>5, <2>6, <2>7, <2>8, <2>9 DEF ApplyNext
<1> QED BY <1>1, <1>2, Invariance, PTL DEF ApplySpec

\* Only the call that has looked at the file can find that it cannot be edited.
LEMMA Unbuildable ==
    ASSUME IInv, ApplyNext, NEW s \in Services, call'[s].outcome = "unbuildable"
    PROVE  \/ call[s].outcome = "unbuildable" /\ call'[s].plan = call[s].plan
           \/ /\ call[s].pc = "leased" /\ call'[s].plan = call[s].plan
              /\ BuildRefuses(call[s].plan.source, call[s].plan.desired)
<1>1. Shaped /\ {"plan", "outcome"} \subseteq Fields \ {"pc", "meddled"}
    BY DEF IInv, Fields
<1> DEFINE same == call'[s].outcome = call[s].outcome /\ call'[s].plan = call[s].plan
<1>2. Free.outcome # "unbuildable"
    BY ApplyAssumption DEF Free, Outcomes
<1>3. ASSUME NEW t \in Services, Refuse(t) PROVE same
    BY <1>1, <1>2, <1>3, RefuseIs
<1>4. ASSUME NEW t \in Services, NEW pc, Goto(t, pc) PROVE same
    BY <1>1, <1>4, GotoIs
<1>5. ASSUME NEW t \in Services, NEW outcome, End(t, outcome), outcome # "unbuildable" PROVE same
    BY <1>1, <1>5, EndIs
<1>6. ASSUME NEW content, Edit(content) PROVE same
    BY <1>1, <1>6, EditIs
<1>7. ASSUME NEW t \in Services, NEW name, Preview(t, name) PROVE same
    <2> DEFINE shown == [Free EXCEPT !.pc = "shown", !.plan = Plan(Get(name), config)]
    <2>1. call' = [call EXCEPT ![t] = shown]
        BY <1>7 DEF Preview
    <2>2. shown.outcome = None
        BY DEF Free
    <2> HIDE DEF shown
    <2> QED BY <1>1, <2>1, <2>2, ApplyAssumption DEF Shaped, Outcomes
<1>8. ASSUME NEW t \in Services, NEW body, NEW digest, NEW token, Apply(t, body, digest, token) PROVE same
    <2> DEFINE taken == [Free EXCEPT !.pc = "confirmed", !.plan = body, !.token = token, !.begun = now]
    <2>1. Refuse(t) \/ call' = [call EXCEPT ![t] = taken]
        BY <1>8 DEF Apply
    <2>2. taken.outcome = None
        BY DEF Free
    <2> HIDE DEF taken
    <2>3. CASE call' = [call EXCEPT ![t] = taken]
        BY <1>1, <2>2, <2>3, ApplyAssumption DEF Shaped, Outcomes
    <2> QED BY <1>3, <2>1, <2>3
<1>9. ASSUME NEW t \in Services, ReadLatest(t)
      PROVE  \/ same
             \/ /\ t = s /\ call[s].pc = "leased" /\ call'[s].plan = call[s].plan
                /\ BuildRefuses(call[s].plan.source, call[s].plan.desired)
    <2>1. CASE End(t, "changed after preview") \/ Goto(t, "backing up")
        BY <1>4, <1>5, <2>1
    <2>2. CASE /\ End(t, "unbuildable") /\ call[t].pc = "leased"
               /\ BuildRefuses(call[t].plan.source, call[t].plan.desired)
        <3>1. CASE t = s
            BY <1>1, <2>2, <3>1, EndIs
        <3>2. CASE t # s
            BY <1>1, <2>2, <3>2, EndIs
        <3> QED BY <3>1, <3>2
    <2>3. \/ End(t, "changed after preview") \/ Goto(t, "backing up")
          \/ /\ End(t, "unbuildable") /\ call[t].pc = "leased"
             /\ BuildRefuses(call[t].plan.source, call[t].plan.desired)
        BY <1>9 DEF ReadLatest
    <2> QED BY <2>1, <2>2, <2>3
<1>10. ASSUME NEW t \in Services,
              \/ Decline(t) \/ Authorize(t) \/ TakeLease(t) \/ Backup(t) \/ Reread(t) \/ Replace(t)
              \/ ReplaceFails(t) \/ Rollback(t) \/ RollbackFails(t) \/ Release(t) \/ Crash(t)
       PROVE  same
    <2>1. \/ Refuse(t) \/ \E pc : Goto(t, pc)
          \/ End(t, "no backup") \/ End(t, "changed after preview") \/ End(t, "applied")
          \/ End(t, "failed") \/ End(t, "rollback failed")
        BY <1>10 DEF Decline, Authorize, TakeLease, Backup, Reread, Replace,
            ReplaceFails, Rollback, RollbackFails, Release, Crash
    <2> QED BY <1>3, <1>4, <1>5, <2>1
<1>11. CASE call' = call
    BY <1>11
<1>12. CASE RemoveStaleLease \/ Tick \/ \E e \in Editors : EditorNext(e) /\ UNCHANGED applyVars
    BY <1>11, <1>12 DEF RemoveStaleLease, Tick, applyVars
<1> HIDE DEF same
<1>13. \/ same
       \/ /\ call[s].pc = "leased" /\ call'[s].plan = call[s].plan
          /\ BuildRefuses(call[s].plan.source, call[s].plan.desired)
    BY <1>6, <1>7, <1>8, <1>9, <1>10, <1>12 DEF ApplyNext, same
<1> QED BY <1>13 DEF same

\* No apply of a text that repeats nothing ends because it cannot be edited: the
\* preview, which counts the old name as the new one, refuses all that would.
THEOREM PreviewsForesee == ApplySpec => []PreviewForesees
<1>1. ApplyInit => PreviewForesees
    <2>1. Free.outcome # "unbuildable"
        BY ApplyAssumption DEF Free, Outcomes
    <2>2. ApplyInit => call = [s \in Services |-> Free]
        BY DEF ApplyInit
    <2> QED BY <2>1, <2>2 DEF PreviewForesees
<1>2. IInv /\ PlansShown /\ PreviewForesees /\ [ApplyNext]_vars => PreviewForesees'
    <2> SUFFICES ASSUME IInv, PlansShown, PreviewForesees, ApplyNext, NEW s \in Services,
                        call'[s].outcome = "unbuildable"
                 PROVE  Repeats(call'[s].plan.source)
        BY DEF PreviewForesees, vars, applyVars
    <2>1. CASE call[s].outcome = "unbuildable" /\ call'[s].plan = call[s].plan
        BY <2>1 DEF PreviewForesees
    <2>2. CASE /\ call[s].pc = "leased" /\ call'[s].plan = call[s].plan
               /\ BuildRefuses(call[s].plan.source, call[s].plan.desired)
        <3>1. /\ IsConfiguration(call[s].plan.source) /\ PreviewAccepts(call[s].plan.source)
              /\ \A agent \in Approved : call[s].plan.desired[agent] \in Models
            BY <2>2 DEF PlansShown, Shown, IInv, SourcesAccepted, Acceptable,
                Carried, InFlight, ValidPlan, ValidProfile
        <3> QED BY <2>2, <3>1, AcceptedCanBeBuilt
    <2> QED BY <2>1, <2>2, Unbuildable
<1> QED BY <1>1, <1>2, Invariance, ShownInvariance, PTL DEF ApplySpec

\* The old entries and the new, by the plan that was shown.
LEMMA ResultIsAsShown ==
    ASSUME IInv, WorkInv, PlansShown, NEW s \in Services,
           call[s].pc = "replacing", ~call[s].meddled
    PROVE  LET old == Seen(Agents(config))
               new == Agents(Result(s))
               plan == call[s].plan
           IN  /\ Result(s).rest = config.rest
               /\ DOMAIN new \ {Legacy} = DOMAIN old \ {Legacy}
               /\ Legacy \in DOMAIN new => Len(config.agents[1][Legacy]) > 1
               /\ \A agent \in DOMAIN new \ {Legacy} :
                    IF agent \in plan.changes
                    THEN /\ old[agent].model = plan.current[agent]
                         /\ new[agent] = [old[agent] EXCEPT !.model = plan.profile.models[agent]]
                    ELSE new[agent] = old[agent]
               /\ \A b \in DOMAIN config.agents : \A key \in DOMAIN config.agents[b] \ {Legacy} :
                    \A i \in DOMAIN config.agents[b][key] :
                        OnlyModels(config.agents[b][key][i], Result(s).agents[b][key][i])
<1> DEFINE plan == call[s].plan
           old == Seen(Agents(config))
           new == Agents(Result(s))
<1>1. /\ config = plan.source /\ Shown(plan) /\ ValidPlan(plan)
      /\ ~BuildRefuses(config, plan.desired)
    BY DEF WorkInv, Secured, Known, PlansShown, IInv, Buildable, Carried, InFlight
<1>2. IsConfiguration(config) /\ \A agent \in Approved : plan.desired[agent] \in Models
    BY <1>1 DEF Shown, ValidPlan, ValidProfile
<1>3. Result(s) = Built(config, plan.desired)
    BY <1>1 DEF Result
<1>4. /\ Result(s).rest = config.rest
      /\ DOMAIN new \ {Legacy} = DOMAIN old \ {Legacy}
      /\ Legacy \in DOMAIN new => Len(config.agents[1][Legacy]) > 1
      /\ \A key \in DOMAIN new \ {Legacy} :
            IF key \in Approved
            THEN old[key] \in Meanings /\ new[key] = [old[key] EXCEPT !.model = plan.desired[key]]
            ELSE new[key] = old[key]
      /\ \A b \in DOMAIN config.agents : \A key \in DOMAIN config.agents[b] \ {Legacy} :
            \A i \in DOMAIN config.agents[b][key] :
                OnlyModels(config.agents[b][key][i], Result(s).agents[b][key][i])
    BY <1>1, <1>2, <1>3, BuiltIs
<1>5. \A agent \in Approved : old[agent].model = plan.current[agent]
    BY <1>1 DEF Shown
<1>6. plan.desired = plan.profile.models /\ plan.changes = Differing(plan.current, plan.desired)
    BY <1>1 DEF ValidPlan
<1> HIDE DEF old, new, plan
<1>7. ASSUME NEW agent \in DOMAIN new \ {Legacy}
      PROVE  IF agent \in plan.changes
             THEN /\ old[agent].model = plan.current[agent]
                  /\ new[agent] = [old[agent] EXCEPT !.model = plan.profile.models[agent]]
             ELSE new[agent] = old[agent]
    <2>1. CASE agent \in plan.changes
        <3>1. agent \in Approved
            BY <1>6, <2>1 DEF Differing
        <3> QED BY <1>4, <1>5, <1>6, <2>1, <3>1
    <2>2. CASE agent \in Approved /\ agent \notin plan.changes
        <3>1. plan.desired[agent] = old[agent].model
            BY <1>5, <1>6, <2>2 DEF Differing
        <3>2. old[agent] \in Meanings /\ new[agent] = [old[agent] EXCEPT !.model = old[agent].model]
            BY <1>4, <1>7, <2>2, <3>1
        <3>3. [old[agent] EXCEPT !.model = old[agent].model] = old[agent]
            BY <3>2 DEF Meanings
        <3> QED BY <2>2, <3>2, <3>3
    <2>3. CASE agent \notin Approved
        <3>1. agent \notin plan.changes
            BY <1>6, <2>3 DEF Differing
        <3> QED BY <1>4, <2>3, <3>1
    <2> QED BY <2>1, <2>2, <2>3
<1> QED BY <1>4, <1>7 DEF old, new, plan

\* Of every file a person may have written, an apply changes what it showed.
THEOREM ShownIsWhatChanges == ApplySpec => ChangesAsShown
<1>1. IInv /\ WorkInv /\ PlansShown /\ [ApplyNext]_vars =>
        [\A s \in Services :
            (Writes(s) /\ call[s].pc = "replacing" /\ ~call[s].meddled) =>
                LET old == Seen(Agents(config))
                    new == Agents(config')
                    plan == call[s].plan
                IN  /\ config'.rest = config.rest
                    /\ DOMAIN new \ {Legacy} = DOMAIN old \ {Legacy}
                    /\ Legacy \in DOMAIN new => Len(config.agents[1][Legacy]) > 1
                    /\ \A agent \in DOMAIN new \ {Legacy} :
                        IF agent \in plan.changes
                        THEN /\ old[agent].model = plan.current[agent]
                             /\ new[agent] = [old[agent] EXCEPT !.model = plan.profile.models[agent]]
                        ELSE new[agent] = old[agent]
                    /\ \A b \in DOMAIN config.agents : \A key \in DOMAIN config.agents[b] \ {Legacy} :
                        \A i \in DOMAIN config.agents[b][key] :
                            OnlyModels(config.agents[b][key][i], config'.agents[b][key][i])]_vars
    <2> SUFFICES ASSUME IInv, WorkInv, PlansShown, ApplyNext, NEW s \in Services,
                        Writes(s), call[s].pc = "replacing", ~call[s].meddled
                 PROVE  LET old == Seen(Agents(config))
                            new == Agents(config')
                            plan == call[s].plan
                        IN  /\ config'.rest = config.rest
                            /\ DOMAIN new \ {Legacy} = DOMAIN old \ {Legacy}
                            /\ Legacy \in DOMAIN new => Len(config.agents[1][Legacy]) > 1
                            /\ \A agent \in DOMAIN new \ {Legacy} :
                                IF agent \in plan.changes
                                THEN /\ old[agent].model = plan.current[agent]
                                     /\ new[agent] = [old[agent] EXCEPT !.model = plan.profile.models[agent]]
                                ELSE new[agent] = old[agent]
                            /\ \A b \in DOMAIN config.agents : \A key \in DOMAIN config.agents[b] \ {Legacy} :
                                \A i \in DOMAIN config.agents[b][key] :
                                    OnlyModels(config.agents[b][key][i], config'.agents[b][key][i])
        OBVIOUS
    <2>1. config' = Result(s)
        BY ReplacingWritesResult
    <2> QED BY <2>1, ResultIsAsShown
<1> QED BY <1>1, Invariance, WorkInvariance, ShownInvariance, PTL DEF ApplySpec, ChangesAsShown
===============================================================================
