---------------------------- MODULE MC_ImageImport ----------------------------
(* An archive of two chunks; every call that can fail may fail.           *)
EXTENDS ImageImport

MCFaults == {"Open", "Input", "Decode", "Ingest", "Commit"}
MCImportFaults == {"Lease", "Changes", "Detect", "Decompress", "Label",
                   "Store", "Create", "Unpack", "Release"}
MCModesGzip == {"writeCompressedBlob"}
MCModesAll == {"writeCompressedBlob", "compressAndWriteBlob"}
=============================================================================
