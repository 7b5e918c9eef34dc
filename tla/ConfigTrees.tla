---------------------------- MODULE ConfigTrees ----------------------------
(***************************************************************************)
(* YamlReader of config/YamlConfig.cpp and XmlConfig of config/XmlConfig.cpp *)
(* flatten a tree into a map: the names on the way to a node, joined by     *)
(* dots, are its key, and the first of two nodes with a key stays.  The     *)
(* parsers are external: a document is the list of the nodes they give, in  *)
(* order, a path of names and a value; a name may itself be a list of names *)
(* (with a dot in it).  The lock around the maps is ConfigRWMutex.          *)
(***************************************************************************)
EXTENDS Integers, SequencesExt

CONSTANTS Documents,        \* sequences of [path, value]; parents before children
          BadName,          \* a name with a character that YamlReader refuses
          MaxLoads,         \* bound: the XML loads
          Nothing           \* the value of a node that is not there, and no document

ASSUME TreesAssumption ==
    \A doc \in Documents : doc # Nothing /\ Len(doc) \in Nat /\ DOMAIN doc = 1..Len(doc)

VARIABLES mYamlConfigMap, isValid,
          mYamlPath,        \* what the last load gave: a document, or Nothing
          m_xmlMap,
          xmlLoads          \* the XML documents loaded, in order

treesVars == <<mYamlConfigMap, isValid, mYamlPath, m_xmlMap, xmlLoads>>

NoNodes == [k \in {} |-> Nothing]

TreesInit == /\ mYamlConfigMap = NoNodes /\ isValid = FALSE /\ mYamlPath = Nothing
             /\ m_xmlMap = NoNodes
             /\ xmlLoads = <<>>

-----------------------------------------------------------------------------
\* The key of a node; the names themselves may have dots.
Key(path) == FlattenSeq(path)

\* std::map::insert()
Inserted(m, k, v) == IF k \in DOMAIN m THEN m ELSE [x \in DOMAIN m \cup {k} |-> IF x = k THEN v ELSE m[x]]

\* The nodes with these numbers, one after the other.
InsertedAll(m, doc, numbers) ==
    LET after[i \in 0..Len(doc)] ==
          IF i = 0 THEN m
          ELSE IF i \in numbers THEN Inserted(after[i - 1], Key(doc[i].path), doc[i].value)
          ELSE after[i - 1]
    IN  after[Len(doc)]

\* loadYaml(): the root has the empty key; below a bad key nothing is entered.
Accepts(path) == BadName \notin ToSet(Key(path))
YamlNodes(doc) == {i \in DOMAIN doc : Accepts(doc[i].path)}
LoadYamlNodes(m, doc) == InsertedAll(Inserted(m, <<>>, Nothing), doc, YamlNodes(doc))

\* loadXml(): the root gives its name to the keys and has no entry.
XmlNodes(doc) == {i \in DOMAIN doc : Len(doc[i].path) # 1}
LoadXmlNodes(m, doc) == InsertedAll(m, doc, XmlNodes(doc))

\* Faulty variant: a load that fails leaves the map.
LoadYamlKeeping(d) ==
    /\ mYamlPath' = d
    /\ IF d = Nothing THEN UNCHANGED <<mYamlConfigMap, isValid>>
       ELSE /\ mYamlConfigMap' = LoadYamlNodes(NoNodes, d)
            /\ isValid' = TRUE
    /\ UNCHANGED <<m_xmlMap, xmlLoads>>

\* loadYaml(path): a file that cannot be read, or an empty one, leaves an empty
\* map, and isValid as it was.
LoadYaml(d) ==
    /\ mYamlPath' = d
    /\ IF d = Nothing THEN mYamlConfigMap' = NoNodes /\ UNCHANGED isValid
       ELSE /\ mYamlConfigMap' = LoadYamlNodes(NoNodes, d)
            /\ isValid' = TRUE
    /\ UNCHANGED <<m_xmlMap, xmlLoads>>

\* root(): operator[] of the map enters an empty node, under the lock for readers.
Root == /\ mYamlConfigMap' = Inserted(mYamlConfigMap, <<>>, Nothing)
        /\ UNCHANGED <<isValid, mYamlPath, m_xmlMap, xmlLoads>>

\* loadFile() and parse(): the map is not cleared; a document with an error is
\* not looked at.
LoadXml(d) == /\ Len(xmlLoads) < MaxLoads /\ d # Nothing
              /\ m_xmlMap' = LoadXmlNodes(m_xmlMap, d)
              /\ xmlLoads' = Append(xmlLoads, d)
              /\ UNCHANGED <<mYamlConfigMap, isValid, mYamlPath>>

TreesNext == Root \/ \E d \in Documents \cup {Nothing} : LoadYaml(d) \/ LoadXml(d)

TreesSpec == TreesInit /\ [][TreesNext]_treesVars

-----------------------------------------------------------------------------
\* The nodes of a document that are entered under a key.
WithKey(doc, numbers, k) == {i \in numbers : Key(doc[i].path) = k}

\* What a YamlReader gives is the document loaded last, all of it and whatever was
\* loaded before: of two nodes with a key the first, as "a.b" may be two nodes.
YamlShowsLastLoad ==
    /\ \A k \in DOMAIN mYamlConfigMap \ {<<>>} :
          /\ mYamlPath # Nothing
          /\ \E i \in WithKey(mYamlPath, YamlNodes(mYamlPath), k) :
                /\ mYamlConfigMap[k] = mYamlPath[i].value
                /\ \A j \in WithKey(mYamlPath, YamlNodes(mYamlPath), k) : i <= j
    /\ mYamlPath # Nothing =>
          \A i \in YamlNodes(mYamlPath) : Key(mYamlPath[i].path) \in DOMAIN mYamlConfigMap

\* What an XmlConfig gives is in some document loaded since it was made: in the
\* first one that had the key.  A document loaded again changes nothing.
XmlShowsFirstLoad ==
    /\ \A k \in DOMAIN m_xmlMap :
          \E d \in DOMAIN xmlLoads : \E i \in WithKey(xmlLoads[d], XmlNodes(xmlLoads[d]), k) :
              /\ m_xmlMap[k] = xmlLoads[d][i].value
              /\ \A j \in WithKey(xmlLoads[d], XmlNodes(xmlLoads[d]), k) : i <= j
              /\ \A e \in 1..(d - 1) : WithKey(xmlLoads[e], XmlNodes(xmlLoads[e]), k) = {}
    /\ \A d \in DOMAIN xmlLoads : \A i \in XmlNodes(xmlLoads[d]) :
          Key(xmlLoads[d][i].path) \in DOMAIN m_xmlMap

\* What is shown can be told from the documents loaded.
ConfigShown == YamlShowsLastLoad /\ XmlShowsFirstLoad
=============================================================================
