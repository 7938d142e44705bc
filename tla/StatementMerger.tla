---------------------------- MODULE StatementMerger ----------------------------
(***************************************************************************)
(* The bank statement merger (src/Program/Python/bank_statement_merger):   *)
(* one window, whose buttons import the files of a folder, export what was *)
(* merged last, and write demonstration files. An exception that leaves a  *)
(* button's slot aborts the program (PyQt6). Of a statement its headers    *)
(* are kept, and the bank that issued it; the order of columns is not.     *)
(***************************************************************************)
EXTENDS Naturals, Sequences, FiniteSets

CONSTANTS Folders,        \* the folders there are
          FirstContents,  \* FirstContents[d]: the files in folder d at first
          NoFolder, NoData

ASSUME MergerAssumption == NoFolder \notin Folders /\ DOMAIN FirstContents = Folders

VARIABLES
    app,                 \* "off", "running", or "aborted"
    mapping_config,      \* "default", the one in the code; the "file"'s; or "demo", which is written
    merged_data,         \* the table, or NoData
    import_folder_path,
    content,             \* content[d]: the files of folder d
    exported,            \* the last export: the table, and the folder it was proposed for
    import_failed        \* history: the last import of a folder has merged nothing

mergerVars == <<app, mapping_config, merged_data, import_folder_path, content, exported, import_failed>>

Banks == <<"ICBC", "CCB", "CMB", "ABC", "BOC">>

\* A result header, and the header of each bank, in their order, it is made of;
\* "none" where the bank has no such header.
FileMappings == {
    <<"trade_date", "trade_time", "time", "trade_day", "trade_time", "trade_date">>,
    <<"booking_date", "trade_date", "booking_date", "entry_date", "booking_time", "booking_date">>,
    <<"number", "account'", "number'", "account_number", "own_number", "account">>,
    <<"account", "account", "card", "our_number", "number", "own_account">>,
    <<"other_number", "other_account", "other_number'", "their_number", "other_number", "other_account">>,
    <<"amount", "trade_amount", "amount", "trade_sum", "trade_amount", "trade_amount">>,
    <<"net_amount", "net_amount", "in/out_amount", "RMB_amount", "net_sum", "debit/credit_amount">>,
    <<"note", "summary", "note_info", "purpose", "summary", "trade_summary">>,
    <<"summary", "trade_summary", "postscript", "trade_note", "postscript", "note">>,
    <<"face_balance", "balance", "current_balance", "book_balance", "account_balance", "balance">>,
    <<"account_balance", "account_balance", "none", "none", "none", "none">> }

\* The one in the code differs in one header of the ABC.
Mappings ==
    IF mapping_config # "default" THEN FileMappings
    ELSE {row \in FileMappings : row[6] # "balance" /\ row[1] # "account_balance"}
         \cup {<<"face_balance", "balance", "current_balance", "book_balance", "none", "balance">>,
               <<"account_balance", "account_balance", "none", "none", "account_balance", "none">>}

\* The configuration that the demonstration writes has six result headers only.
DemoHeader(header) ==
    CASE header \in {"trade_date", "booking_date"} -> "date"
      [] header \in {"number", "account"} -> "number"
      [] header \in {"amount", "net_amount"} -> "amount"
      [] header \in {"note", "summary"} -> "note"
      [] header \in {"face_balance", "account_balance"} -> "balance"
      [] OTHER -> header
ResultHeader(header) == IF mapping_config = "demo" THEN DemoHeader(header) ELSE header

\* The bank in position i, its headers, and those that become a result header.
KeysOf(i) == {row[i + 1] : row \in Mappings} \ {"none"}
SourcesOf(i, header) == {row[i + 1] : row \in {m \in Mappings : ResultHeader(m[1]) = header}} \ {"none"}
ResultHeaders == {ResultHeader(row[1]) : row \in Mappings}

MergerInit ==
    /\ app = "off" /\ mapping_config = "default"
    /\ merged_data = NoData /\ import_folder_path = NoFolder
    /\ content = FirstContents
    /\ exported = [table |-> NoData, folder |-> NoFolder]
    /\ import_failed = FALSE

-----------------------------------------------------------------------------
(* Reading and recognising.                                                *)

\* A file that cannot be decoded is tried again as GBK, which may raise; every
\* other failure is None.
ReadRaises(f) == f.ext = "csv" /\ f.text = "undecodable"
Readable(f) == f.text = "utf-8" \/ (f.text = "gbk" /\ f.ext = "csv")

\* The first bank that has all the columns, 0 if there is none.
detect_bank(columns) ==
    LET fitting == {i \in DOMAIN Banks : columns \subseteq KeysOf(i)}
    IN  IF fitting = {} THEN 0 ELSE CHOOSE i \in fitting : \A j \in fitting : i <= j

\* How often each header occurs once the columns are renamed.
apply_mapping(columns, i) ==
    IF i = 0 THEN [h \in columns |-> 1]
    ELSE [h \in {g \in ResultHeaders : SourcesOf(i, g) \cap columns # {}}
              |-> Cardinality(SourcesOf(i, h) \cap columns)]

\* concat needs unique headers, unless all frames have the same.
ConcatRaises(frames) ==
    /\ Cardinality(frames) > 1
    /\ \E frame \in frames, h \in UNION {DOMAIN g : g \in frames} :
          h \in DOMAIN frame /\ frame[h] > 1

\* A header that the configuration names twice is selected twice.
Times(h) == IF h \in ResultHeaders
            THEN Cardinality({row \in Mappings : ResultHeader(row[1]) = h}) ELSE 1
reorder_columns(frames) ==
    [h \in UNION {DOMAIN f : f \in frames} |->
        Times(h) * (CHOOSE n \in 1 .. 11 : \E f \in frames : h \in DOMAIN f /\ f[h] = n)]

-----------------------------------------------------------------------------
(* The buttons.                                                            *)

\* load_mapping_config: a file that cannot be read is logged, before there is
\* a text field to log to, so the program ends before its window opens.
StartUp(config) ==
    /\ app = "off"
    /\ IF config = "broken" THEN app' = "aborted" /\ UNCHANGED mapping_config
       ELSE app' = "running" /\ mapping_config' = config
    /\ UNCHANGED <<merged_data, import_folder_path, content, exported, import_failed>>

\* Mutant: the rows of earlier imports stay.
ProcessAppends(files, frames) ==
    merged_data' = [columns |-> reorder_columns(frames),
                    rows |-> files \cup (IF merged_data = NoData THEN {} ELSE merged_data.rows)]

\* process_folder: the readable files become the table, each under the headers
\* of the bank it was taken for.
Process(files, frames) ==
    merged_data' = [columns |-> reorder_columns(frames), rows |-> files]

\* The path is stored first, and stays if the import comes to nothing.
import_folder(d) ==
    /\ app = "running"
    /\ import_folder_path' = d
    /\ LET files == {f \in content[d] : Readable(f) /\ f.columns # {}}
           frames == {apply_mapping(f.columns, detect_bank(f.columns)) : f \in files}
       IN  IF (\E f \in content[d] : ReadRaises(f)) \/ ConcatRaises(frames)
           THEN app' = "aborted" /\ import_failed' = TRUE /\ UNCHANGED merged_data
           ELSE /\ import_failed' = (files = {})
                /\ IF files = {} THEN UNCHANGED merged_data ELSE Process(files, frames)
                /\ UNCHANGED app
    /\ UNCHANGED <<mapping_config, content, exported>>

\* The table as it is, wherever it came from; writing it may fail.
export_merged ==
    /\ app = "running" /\ merged_data # NoData
    /\ exported' = [table |-> merged_data, folder |-> import_folder_path]
    /\ UNCHANGED <<app, mapping_config, merged_data, import_folder_path, content, import_failed>>

\* The five demonstration statements: six of the headers of each bank.
DemoRows == {"trade_date", "number", "other_number", "amount", "note", "face_balance"}
DemoFile(i, ext) ==
    [issuer |-> i, ext |-> ext, text |-> "utf-8",
     columns |-> {row[i + 1] : row \in {m \in FileMappings : m[1] \in DemoRows}}]
\* The configuration is written beside them, and is a .csv too.
ConfigFile == [issuer |-> 0, ext |-> "csv", text |-> "utf-8",
               columns |-> {"result_header"} \cup {Banks[i] : i \in DOMAIN Banks}]
DemoFiles == {ConfigFile} \cup {DemoFile(i, IF i \in {3, 5} THEN "csv" ELSE "xlsx") : i \in DOMAIN Banks}

generate_demo_files(d) ==
    /\ app = "running"
    /\ content' = [content EXCEPT ![d] = @ \cup DemoFiles]
    /\ UNCHANGED <<app, mapping_config, merged_data, import_folder_path, exported, import_failed>>

MergerNext ==
    \/ \E config \in {"default", "file", "demo", "broken"} : StartUp(config)
    \/ \E d \in Folders : import_folder(d) \/ generate_demo_files(d)
    \/ export_merged

MergerSpec == MergerInit /\ [][MergerNext]_mergerVars

MergerTypeOK ==
    /\ app \in {"off", "running", "aborted"} /\ mapping_config \in {"default", "file", "demo"}
    /\ import_folder_path \in Folders \cup {NoFolder}
    /\ DOMAIN content = Folders
    /\ merged_data # NoData => import_folder_path # NoFolder
    /\ mapping_config # "demo" /\ merged_data # NoData =>
          \A h \in DOMAIN merged_data.columns : merged_data.columns[h] = 1

-----------------------------------------------------------------------------
(* Properties.                                                             *)

\* What is exported are the rows of the files in the folder it is proposed to
\* be saved beside, unless the last import came to nothing: then the rows of
\* an earlier one are exported under the later folder (main.py:177-185,
\* 276-285, 318-331).
ExportIsOfFolder ==
    [][exported' # exported => import_failed
          \/ exported'.table.rows \subseteq content[exported'.folder]]_mergerVars
=============================================================================
