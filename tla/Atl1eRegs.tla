------------------------------ MODULE Atl1eRegs ------------------------------
(***************************************************************************)
(* The register and descriptor-word layout of the Atheros L1E header      *)
(* (drivers/net/atl1e.h).  Each word is a record of cells: a multi-bit    *)
(* field given by a MASK/SHIFT pair, or a one-bit flag.  A cell is        *)
(* written the way those pairs are meant to be used: AT_READ_REG the word, *)
(* clear the cell's bits, OR in the value moved into place, AT_WRITE_REG   *)
(* it back.  Descriptor words (tpd, rrs) are filled the same way by their *)
(* owner.  The question is whether the layout lets every cell be written  *)
(* without disturbing the others: two cells that share a bit break it.    *)
(***************************************************************************)
EXTENDS Integers, FiniteSetsExt, TLC

CONSTANTS
  Regs,       \* the words programmed in a run, a subset of DOMAIN Layout
  MaxWrites   \* cell updates per behaviour

VARIABLES
  hw,         \* every word in Regs, as the set of its bits that are 1
  last,       \* <<word, cell>> :> the value last written to that cell
  resetOnes,  \* the words started all ones (TRUE) or all zeros (FALSE)
  writes      \* updates done so far, bounded by MaxWrites

vars == <<hw, last, resetOnes, writes>>

(* A word is held as the set of its bits that are 1 (TLC's integers stop *)
(* at 2^31): C's & and | are \cap and \cup, ~ is the complement in the   *)
(* word's width.  Bits(x) are the bits of a constant below 2^31.          *)
Bits(x) == {i \in 0..30 : (x \div 2^i) % 2 = 1}

(* A cell: its bits in place (pos), the shift of its value, and the      *)
(* values written to it.  Placed takes a mask the header gives in place; *)
(* Field a MASK/SHIFT pair; Flag a single bit.                            *)
Placed(posmask, shift, vals) == [pos |-> Bits(posmask), shift |-> shift, vals |-> vals]
Field(mask, shift, vals) == [pos |-> {shift + i : i \in Bits(mask)}, shift |-> shift,
                             vals |-> vals]
Fld(mask, shift) == Field(mask, shift, {0, mask})
FlagBit(i) == [pos |-> {i}, shift |-> i, vals |-> {0, 1}]
Flag(bit) == FlagBit(CHOOSE i \in 0..30 : 2^i = bit)
Word(width, cells) == [width |-> width, cells |-> cells]

(* Transmit buffers are cut into chunks of at most MAX_TX_BUF_LEN bytes, *)
(* each put into the BUFLEN field of a tpd's word2.                       *)
MAX_TX_BUF_SHIFT == 13
MAX_TX_BUF_LEN_Shift14 == 2^(MAX_TX_BUF_SHIFT + 1)
MAX_TX_BUF_LEN == 2^MAX_TX_BUF_SHIFT

(* enum atl1e_dma_req_block, written into the DMA burst-length fields.   *)
DmaReqBlock == 0..5

TPD_word2 == Word(32, [BUFLEN |-> Field(\h3FFF, 0, {1, MAX_TX_BUF_LEN})])
TPD_word3 == Word(32, [EOP |-> Fld(1, 0)])

RRS_word1 == Word(32, [RX_CSUM |-> Fld(\hFFFF, 0), PKT_SIZE |-> Fld(\h3FFF, 16),
                       CPU_NUM |-> Fld(3, 30)])

RRS_pkt_flag == Word(16,
  [IS_RSS_IPV4 |-> Flag(1), IS_RSS_IPV4_TCP |-> Flag(2), IS_RSS_IPV6 |-> Flag(4),
   IS_RSS_IPV6_TCP |-> Flag(8), IS_IPV6 |-> Flag(\h10), IS_IP_FRAG |-> Flag(\h20),
   IS_IP_DF |-> Flag(\h40), IS_802_3 |-> Flag(\h80), IS_VLAN_TAG |-> Flag(\h100),
   IS_ERR_FRAME |-> Flag(\h200), IS_IPV4 |-> Flag(\h400), IS_UDP |-> Flag(\h800),
   IS_TCP |-> Flag(\h1000), IS_BCAST |-> Flag(\h2000), IS_MCAST |-> Flag(\h4000),
   IS_PAUSE |-> Flag(\h8000)])

RRS_err_flag == Word(16,
  [BAD_CRC |-> Flag(1), CODE |-> Flag(2), DRIBBLE |-> Flag(4), RUNT |-> Flag(8),
   RX_OVERFLOW |-> Flag(\h10), TRUNC |-> Flag(\h20), IP_CSUM |-> Flag(\h40),
   L4_CSUM |-> Flag(\h80), LENGTH |-> Flag(\h100), DES_ADDR |-> Flag(\h200)])

DEVICE_CAP == Word(32, [MAX_PAYLOAD |-> Fld(7, 0)])
DEVICE_CTRL == Word(32, [MAX_PAYLOAD |-> Fld(7, 5), MAX_RREQ_SZ |-> Fld(7, 12)])
VPD_CAP == Word(32, [ID |-> Fld(\hFF, 0), NEXT_PTR |-> Fld(\hFF, 8),
                     VPD_ADDR |-> Fld(\h7FFF, 16), VPD_FLAG |-> FlagBit(31)])

(* STS_NON_RDY, STS_WEN and STS_WPEN are bits of DEV_STS, not cells of    *)
(* their own: they are the values DEV_STS is given.                       *)
SPI_FLASH_CTRL == Word(32,
  [DEV_STS |-> Field(\hFF, 0, {1, 2, \h80}), INS |-> Fld(7, 8),
   START |-> Flag(\h800), EN_VPD |-> Flag(\h2000), LDSTART |-> Flag(\h8000),
   CS_HI |-> Fld(3, 16), CS_HOLD |-> Fld(3, 18), CLK_LO |-> Fld(3, 20),
   CLK_HI |-> Fld(3, 22), CS_SETUP |-> Fld(3, 24), EROM_PGSZ |-> Fld(3, 26),
   WAIT_READY |-> Flag(\h10000000)])

SPI_FLASH_CONFIG == Word(32, [LD_ADDR |-> Fld(\hFFFFFF, 0), VPD_ADDR |-> Fld(3, 24),
                              LD_EXIST |-> Flag(\h4000000)])

(* TWSI_CTRL_SMB_SLV_ADDR_MASK is written 0x0x7F, which is no C constant, *)
(* so SMB_SLV_ADDR has no cell.  The frequency fields take the values     *)
(* TWSI_CTRL_FREQ_SEL_100K .. _400K.                                       *)
TWSI_CTRL == Word(32,
  [LD_OFFSET |-> Fld(\hFF, 0), LD_SLV_ADDR |-> Fld(7, 8),
   SW_LDSTART |-> Flag(\h800), HW_LDSTART |-> Flag(\h1000),
   LD_EXIST |-> Flag(\h400000),
   READ_FREQ_SEL |-> Field(3, 23, 0..3), WRITE_FREQ_SEL |-> Field(3, 24, 0..3)])

PCIE_DEV_MISC_CTRL == Word(32,
  [RETRY_BUFDIS |-> Flag(1), EXT_PIPE |-> Flag(2), SPIROM_EXIST |-> Flag(4),
   SERDES_ENDIAN |-> Flag(8), SERDES_SEL_DIN |-> Flag(\h10)])

MASTER_CTRL == Word(32,
  [SOFT_RST |-> Flag(1), MTIMER_EN |-> Flag(2), ITIMER_EN |-> Flag(4),
   MANUAL_INT |-> Flag(8), ITIMER2_EN |-> Flag(\h20), INT_RDCLR |-> Flag(\h40),
   LED_MODE |-> Flag(\h200), REV_NUM |-> Fld(\hFF, 16), DEV_ID |-> Fld(\hFF, 24)])

GPHY_CTRL == Word(32,
  [EXT_RESET |-> Flag(1), PIPE_MOD |-> Flag(2), TEST_MODE |-> Fld(3, 2),
   BERT_START |-> Flag(\h10), GATE_25M_EN |-> Flag(\h20), LPW_EXIT |-> Flag(\h40),
   PHY_IDDQ |-> Flag(\h80), PHY_IDDQ_DIS |-> Flag(\h100), PCLK_SEL_DIS |-> Flag(\h200),
   HIB_EN |-> Flag(\h400), HIB_PULSE |-> Flag(\h800), SEL_ANA_RST |-> Flag(\h1000),
   PHY_PLL_ON |-> Flag(\h2000), PWDOWN_HW |-> Flag(\h4000)])

(* No MDIO_CLK_SEL mask is defined: the widest value, MDIO_CLK_25_28 = 7, *)
(* gives the field its bits; it takes the MDIO_CLK_25_* values.           *)
MDIO_CTRL == Word(32,
  [DATA |-> Fld(\hFFFF, 0), REG_ADDR |-> Fld(\h1F, 16), RW |-> Flag(\h200000),
   SUP_PREAMBLE |-> Flag(\h400000), START |-> Flag(\h800000),
   CLK_SEL |-> Field(7, 24, {0, 2, 3, 4, 5, 6, 7}),
   BUSY |-> Flag(\h8000000), AP_EN |-> Flag(\h10000000)])

(* MAC_CTRL_SPEED_MASK is given in place (0x300000), unlike the other    *)
(* masks; the field takes MAC_CTRL_SPEED_1000 and MAC_CTRL_SPEED_10_100.  *)
MAC_CTRL == Word(32,
  [TX_EN |-> Flag(1), RX_EN |-> Flag(2), TX_FLOW |-> Flag(4), RX_FLOW |-> Flag(8),
   LOOPBACK |-> Flag(\h10), DUPLX |-> Flag(\h20), ADD_CRC |-> Flag(\h40),
   PAD |-> Flag(\h80), LENCHK |-> Flag(\h100), HUGE_EN |-> Flag(\h200),
   PRMLEN |-> Fld(\hF, 10), RMV_VLAN |-> Flag(\h4000), PROMIS_EN |-> Flag(\h8000),
   TX_PAUSE |-> Flag(\h10000), SCNT |-> Flag(\h20000), SRST_TX |-> Flag(\h40000),
   TX_SIMURST |-> Flag(\h80000), SPEED |-> Placed(\h300000, 20, {2, 1}),
   DBG_TX_BKPRESURE |-> Flag(\h400000), TX_HUGE |-> Flag(\h800000),
   RX_CHKSUM_EN |-> Flag(\h1000000), MC_ALL_EN |-> Flag(\h2000000),
   BC_EN |-> Flag(\h4000000), DBG |-> Flag(\h8000000)])

MAC_IPG_IFG == Word(32, [IPGT |-> Fld(\h7F, 0), MIFG |-> Fld(\hFF, 8),
                         IPGR1 |-> Fld(\h7F, 16), IPGR2 |-> Fld(\h7F, 24)])

MAC_HALF_DUPLX_CTRL == Word(32,
  [LCOL |-> Fld(\h3FF, 0), RETRY |-> Fld(\hF, 12), EXC_DEF_EN |-> Flag(\h10000),
   NO_BACK_C |-> Flag(\h20000), NO_BACK_P |-> Flag(\h40000), ABEBE |-> Flag(\h80000),
   ABEBT |-> Fld(\hF, 20), JAMIPG |-> Fld(\hF, 24)])

WOL_CTRL == Word(32,
  [PATTERN_EN |-> Flag(1), PATTERN_PME_EN |-> Flag(2), MAGIC_EN |-> Flag(4),
   MAGIC_PME_EN |-> Flag(8), LINK_CHG_EN |-> Flag(\h10), LINK_CHG_PME_EN |-> Flag(\h20),
   PATTERN_ST |-> Flag(\h100), MAGIC_ST |-> Flag(\h200), LINKCHG_ST |-> Flag(\h400),
   CLK_SWITCH_EN |-> Flag(\h8000), PT0_EN |-> Flag(\h10000), PT1_EN |-> Flag(\h20000),
   PT2_EN |-> Flag(\h40000), PT3_EN |-> Flag(\h80000), PT4_EN |-> Flag(\h100000),
   PT5_EN |-> Flag(\h200000), PT6_EN |-> Flag(\h400000)])

(* REG_WOL_PATTERN_LEN is two dwords: PT0..PT3 in the first, PT4..PT6 in *)
(* the second, each WOL_PT_LEN_MASK wide.                                 *)
WOL_PATTERN_LEN0 == Word(32, [PT0_LEN |-> Fld(\h7F, 0), PT1_LEN |-> Fld(\h7F, 8),
                              PT2_LEN |-> Fld(\h7F, 16), PT3_LEN |-> Fld(\h7F, 24)])
WOL_PATTERN_LEN1 == Word(32, [PT4_LEN |-> Fld(\h7F, 0), PT5_LEN |-> Fld(\h7F, 8),
                              PT6_LEN |-> Fld(\h7F, 16)])

TXQ_CTRL == Word(32, [NUM_TPD_BURST |-> Fld(\hF, 0), EN |-> Flag(\h20),
                      ENH_MODE |-> Flag(\h40), TXF_BURST_NUM |-> Fld(\hFFFF, 16)])
TX_EARLY_TH == Word(32, [TH |-> Fld(\h7FF, 0)])

(* PBA_ALIGN and RSS_MODE have no mask: their widest named values        *)
(* (RXQ_CTRL_PBA_ALIGN_256, RXQ_CTRL_RSS_MODE_MQUEMINT) give their bits.  *)
RXQ_CTRL == Word(32,
  [PBA_ALIGN |-> Field(3, 0, 0..3), Q1_EN |-> Flag(\h10), Q2_EN |-> Flag(\h20),
   Q3_EN |-> Flag(\h40), IPV6_XSUM_VERIFY_EN |-> Flag(\h80),
   HASH_TLEN |-> Fld(\hFF, 8), HASH_TYPE_IPV4 |-> Flag(\h10000),
   HASH_TYPE_IPV4_TCP |-> Flag(\h20000), HASH_TYPE_IPV6 |-> Flag(\h40000),
   HASH_TYPE_IPV6_TCP |-> Flag(\h80000),
   RSS_MODE |-> Placed(\hC000000, 0, {0, \h4000000, \h8000000, \hC000000}),
   NIP_QUEUE_SEL_TBL |-> Flag(\h10000000), HASH_ENABLE |-> Flag(\h20000000),
   CUT_THRU_EN |-> Flag(\h40000000), EN |-> FlagBit(31)])

RXQ_JMBOSZ_RRDTIM == Word(32, [JMBOSZ_TH |-> Fld(\h7FF, 0), JMBO_LKAH |-> Fld(\hF, 11)])
RXQ_RXF_PAUSE_THRESH == Word(32, [PAUSE_TH_HI |-> Fld(\hFFF, 0),
                                  PAUSE_TH_LO |-> Fld(\hFFF, 16)])

DMA_CTRL == Word(32,
  [DMAR_IN_ORDER |-> Flag(1), DMAR_ENH_ORDER |-> Flag(2), DMAR_OUT_ORDER |-> Flag(4),
   RCB_VALUE |-> Flag(8), DMAR_BURST_LEN |-> Field(7, 4, DmaReqBlock),
   DMAW_BURST_LEN |-> Field(7, 7, DmaReqBlock), DMAR_REQ_PRI |-> Flag(\h400),
   DMAR_DLY_CNT |-> Fld(\h1F, 11), DMAW_DLY_CNT |-> Fld(\hF, 16),
   TXCMB_EN |-> Flag(\h100000), RXCMB_EN |-> Flag(\h200000)])

(* Status words the device sets: block idle flags, PHY status, the two  *)
(* built-in self tests and SerDes lock detect.                            *)
IDLE_STATUS == Word(32,
  [RXMAC |-> Flag(1), TXMAC |-> Flag(2), RXQ |-> Flag(4), TXQ |-> Flag(8),
   DMAR |-> Flag(\h10), DMAW |-> Flag(\h20), SMB |-> Flag(\h40), CMB |-> Flag(\h80)])
PHY_STATUS == Word(32, [S100M |-> Flag(\h20000), EMI_CA |-> Flag(\h40000)])
BIST0_CTRL == Word(32, [NOW |-> Flag(1), SRAM_FAIL |-> Flag(2), FUSE_FLAG |-> Flag(4)])
BIST1_CTRL == Word(32, [NOW |-> Flag(1), SRAM_FAIL |-> Flag(2), FUSE_FLAG |-> Flag(4)])
SERDES_LOCK == Word(32, [DETECT |-> Flag(1), DETECT_EN |-> Flag(2)])

(* The interrupt status word; ISR_DIS_INT is bit 31.                      *)
ISR == Word(32,
  [SMB |-> Flag(1), TIMER |-> Flag(2), MANUAL |-> Flag(4), HW_RXF_OV |-> Flag(8),
   HOST_RXF0_OV |-> Flag(\h10), HOST_RXF1_OV |-> Flag(\h20),
   HOST_RXF2_OV |-> Flag(\h40), HOST_RXF3_OV |-> Flag(\h80), TXF_UN |-> Flag(\h100),
   RX0_PAGE_FULL |-> Flag(\h200), DMAR_TO_RST |-> Flag(\h400),
   DMAW_TO_RST |-> Flag(\h800), GPHY |-> Flag(\h1000), TX_CREDIT |-> Flag(\h2000),
   GPHY_LPW |-> Flag(\h4000), RX_PKT |-> Flag(\h10000), TX_PKT |-> Flag(\h20000),
   TX_DMA |-> Flag(\h40000), RX_PKT_1 |-> Flag(\h80000), RX_PKT_2 |-> Flag(\h100000),
   RX_PKT_3 |-> Flag(\h200000), MAC_RX |-> Flag(\h400000), MAC_TX |-> Flag(\h800000),
   UR_DETECTED |-> Flag(\h1000000), FERR_DETECTED |-> Flag(\h2000000),
   NFERR_DETECTED |-> Flag(\h4000000), CERR_DETECTED |-> Flag(\h8000000),
   PHY_LINKDOWN |-> Flag(\h10000000), DIS_INT |-> FlagBit(31)])

(* REG_IMR has no bits of its own: it is masked with the ISR_* bits.     *)
IMR == Word(32, ISR.cells)

(* C's A | B | ... over flags of a word.                                 *)
OrFlags(w, names) == UNION {w.cells[n].pos : n \in names}

GPHY_CTRL_DEFAULT == OrFlags(GPHY_CTRL, {"PHY_PLL_ON", "SEL_ANA_RST", "HIB_PULSE", "HIB_EN"})
GPHY_CTRL_PW_WOL_DIS ==
  OrFlags(GPHY_CTRL, {"PHY_PLL_ON", "SEL_ANA_RST", "HIB_PULSE", "HIB_EN",
                      "PWDOWN_HW", "PCLK_SEL_DIS", "PHY_IDDQ"})

IMR_NORMAL_MASK_NoTxPkt ==
  OrFlags(ISR, {"SMB", "TXF_UN", "HW_RXF_OV", "HOST_RXF0_OV", "MANUAL", "GPHY",
                "GPHY_LPW", "DMAR_TO_RST", "DMAW_TO_RST", "PHY_LINKDOWN", "RX_PKT"})
IMR_NORMAL_MASK ==
  OrFlags(ISR, {"SMB", "TXF_UN", "HW_RXF_OV", "HOST_RXF0_OV", "MANUAL", "GPHY",
                "GPHY_LPW", "DMAR_TO_RST", "DMAW_TO_RST", "PHY_LINKDOWN", "RX_PKT",
                "TX_PKT"})
ISR_TX_EVENT == OrFlags(ISR, {"TXF_UN", "TX_PKT"})
ISR_RX_EVENT == OrFlags(ISR, {"HOST_RXF0_OV", "HW_RXF_OV", "RX_PKT"})

(* The RXF page valid registers are single bytes (0x15F4 .. 0x15FB). *)
HOST_RXF_PAGE_VLD == Word(8, [VALID |-> Flag(1), PAGENO |-> Fld(\h7F, 1)])

(* PHY registers, 16 bits, reached through MDIO_CTRL's DATA field.       *)
(* MII_CR_SPEED_SELECT_MSB/LSB are the two bits of SPEED (bits 6, 13).   *)
MII_CR == Word(16,
  [COLL_TEST_ENABLE |-> Flag(\h80), FULL_DUPLEX |-> Flag(\h100),
   RESTART_AUTO_NEG |-> Flag(\h200), ISOLATE |-> Flag(\h400),
   POWER_DOWN |-> Flag(\h800), AUTO_NEG_EN |-> Flag(\h1000),
   LOOPBACK |-> Flag(\h4000), RESET |-> Flag(\h8000),
   SPEED |-> Placed(\h2040, 0, {\h40, \h2000, 0})])

MII_SR == Word(16,
  [EXTENDED_CAPS |-> Flag(1), JABBER_DETECT |-> Flag(2), LINK_STATUS |-> Flag(4),
   AUTONEG_CAPS |-> Flag(8), REMOTE_FAULT |-> Flag(\h10),
   AUTONEG_COMPLETE |-> Flag(\h20), PREAMBLE_SUPPRESS |-> Flag(\h40),
   EXTENDED_STATUS |-> Flag(\h100), S100T2_HD_CAPS |-> Flag(\h200),
   S100T2_FD_CAPS |-> Flag(\h400), S10T_HD_CAPS |-> Flag(\h800),
   S10T_FD_CAPS |-> Flag(\h1000), S100X_HD_CAPS |-> Flag(\h2000),
   S100X_FD_CAPS |-> Flag(\h4000), S100T4_CAPS |-> Flag(\h8000)])

(* The selector (MII_LPA_SLCT, "same as advertise selector") holds       *)
(* MII_AR_SELECTOR_FIELD, the IEEE 802.3 selector 1, or nothing.          *)
MII_LPA == Word(16,
  [SLCT |-> Field(\h1F, 0, {0, 1}), L10HALF |-> Flag(\h20), L10FULL |-> Flag(\h40),
   L100HALF |-> Flag(\h80), L100FULL |-> Flag(\h100), L100BASE4 |-> Flag(\h200),
   PAUSE |-> Flag(\h400), ASYPAUSE |-> Flag(\h800), RFAULT |-> Flag(\h2000),
   LPACK |-> Flag(\h4000), NPAGE |-> Flag(\h8000)])

MII_AR == Word(16,
  [SELECTOR |-> Field(\h1F, 0, {0, 1}), A10T_HD_CAPS |-> Flag(\h20),
   A10T_FD_CAPS |-> Flag(\h40), A100TX_HD_CAPS |-> Flag(\h80),
   A100TX_FD_CAPS |-> Flag(\h100), A100T4_CAPS |-> Flag(\h200),
   PAUSE |-> Flag(\h400), ASM_DIR |-> Flag(\h800), REMOTE_FAULT |-> Flag(\h2000),
   NEXT_PAGE |-> Flag(\h8000)])
MII_AR_DEFAULT_CAP_MASK == Bits(\h0DE0)

(* The 1000BASE-T test mode takes its named values in place (bits 13-15). *)
MII_AT001_CR == Word(16,
  [HD_CAPS |-> Flag(\h100), FD_CAPS |-> Flag(\h200), REPEATER_DTE |-> Flag(\h400),
   MS_VALUE |-> Flag(\h800), MS_ENABLE |-> Flag(\h1000),
   TEST_MODE |-> Placed(\hE000, 0, {0, \h2000, \h4000, \h6000, \h8000})])
MII_AT001_CR_1000T_DEFAULT_CAP_MASK == Bits(\h0300)

(* The receiver status bits are read through their _SHIFT constants.     *)
MII_AT001_SR_1000T_REMOTE_RX_STATUS_SHIFT == 12
MII_AT001_SR_1000T_LOCAL_RX_STATUS_SHIFT == 13
MII_AT001_SR == Word(16,
  [LP_HD_CAPS |-> Flag(\h400), LP_FD_CAPS |-> Flag(\h800),
   REMOTE_RX_STATUS |-> Placed(\h1000, MII_AT001_SR_1000T_REMOTE_RX_STATUS_SHIFT, {0, 1}),
   LOCAL_RX_STATUS |-> Placed(\h2000, MII_AT001_SR_1000T_LOCAL_RX_STATUS_SHIFT, {0, 1}),
   MS_CONFIG_RES |-> Flag(\h4000), MS_CONFIG_FAULT |-> Flag(\h8000)])

MII_AT001_ESR == Word(16, [T_HD_CAPS |-> Flag(\h1000), T_FD_CAPS |-> Flag(\h2000),
                           X_HD_CAPS |-> Flag(\h4000), X_FD_CAPS |-> Flag(\h8000)])

MII_AT001_PSCR == Word(16,
  [JABBER_DISABLE |-> Flag(1), POLARITY_REVERSAL |-> Flag(2), SQE_TEST |-> Flag(4),
   MAC_POWERDOWN |-> Flag(8), CLK125_DISABLE |-> Flag(\h10),
   AUTO_X_MODE |-> Placed(\h60, 0, {0, \h20, \h40, \h60}),
   EXT_DIST_10BT_ENABLE |-> Flag(\h80), MII_5BIT_ENABLE |-> Flag(\h100),
   SCRAMBLER_DISABLE |-> Flag(\h200), FORCE_LINK_GOOD |-> Flag(\h400),
   ASSERT_CRS_ON_TX |-> Flag(\h800)])

MII_AT001_PSSR == Word(16,
  [SPD_DPLX_RESOLVED |-> Flag(\h800), DPLX |-> Flag(\h2000),
   SPEED |-> Placed(\hC000, 0, {0, \h4000, \h8000})])

Layout ==
  [TPD_word2 |-> TPD_word2, TPD_word3 |-> TPD_word3, RRS_word1 |-> RRS_word1,
   RRS_pkt_flag |-> RRS_pkt_flag, RRS_err_flag |-> RRS_err_flag,
   DEVICE_CAP |-> DEVICE_CAP, DEVICE_CTRL |-> DEVICE_CTRL, VPD_CAP |-> VPD_CAP,
   SPI_FLASH_CTRL |-> SPI_FLASH_CTRL, SPI_FLASH_CONFIG |-> SPI_FLASH_CONFIG,
   TWSI_CTRL |-> TWSI_CTRL, PCIE_DEV_MISC_CTRL |-> PCIE_DEV_MISC_CTRL,
   MASTER_CTRL |-> MASTER_CTRL, GPHY_CTRL |-> GPHY_CTRL, MDIO_CTRL |-> MDIO_CTRL,
   MAC_CTRL |-> MAC_CTRL, MAC_IPG_IFG |-> MAC_IPG_IFG,
   MAC_HALF_DUPLX_CTRL |-> MAC_HALF_DUPLX_CTRL, WOL_CTRL |-> WOL_CTRL,
   WOL_PATTERN_LEN0 |-> WOL_PATTERN_LEN0, WOL_PATTERN_LEN1 |-> WOL_PATTERN_LEN1,
   TXQ_CTRL |-> TXQ_CTRL, TX_EARLY_TH |-> TX_EARLY_TH, RXQ_CTRL |-> RXQ_CTRL,
   RXQ_JMBOSZ_RRDTIM |-> RXQ_JMBOSZ_RRDTIM, RXQ_RXF_PAUSE_THRESH |-> RXQ_RXF_PAUSE_THRESH,
   DMA_CTRL |-> DMA_CTRL, HOST_RXF_PAGE_VLD |-> HOST_RXF_PAGE_VLD,
   MII_CR |-> MII_CR, MII_AT001_PSCR |-> MII_AT001_PSCR,
   IDLE_STATUS |-> IDLE_STATUS, PHY_STATUS |-> PHY_STATUS, BIST0_CTRL |-> BIST0_CTRL,
   BIST1_CTRL |-> BIST1_CTRL, SERDES_LOCK |-> SERDES_LOCK, ISR |-> ISR, IMR |-> IMR,
   MII_SR |-> MII_SR, MII_LPA |-> MII_LPA, MII_AR |-> MII_AR,
   MII_AT001_CR |-> MII_AT001_CR, MII_AT001_SR |-> MII_AT001_SR,
   MII_AT001_ESR |-> MII_AT001_ESR, MII_AT001_PSSR |-> MII_AT001_PSSR]

(* The words written whole with a composite of the header:               *)
(* AT_WRITE_REG(hw, REG_GPHY_CTRL, GPHY_CTRL_DEFAULT) and the like, and   *)
(* the PHY advertisement words started from their default masks.          *)
WordWrites ==
  {<<"GPHY_CTRL", GPHY_CTRL_DEFAULT>>, <<"GPHY_CTRL", GPHY_CTRL_PW_WOL_DIS>>,
   <<"IMR", IMR_NORMAL_MASK>>, <<"MII_AR", MII_AR_DEFAULT_CAP_MASK>>,
   <<"MII_AT001_CR", MII_AT001_CR_1000T_DEFAULT_CAP_MASK>>}

ASSUME Regs \subseteq DOMAIN Layout /\ MaxWrites \in Nat

Width(r) == Layout[r].width
C(r, n) == Layout[r].cells[n]
Cells == UNION {{<<r, n>> : n \in DOMAIN Layout[r].cells} : r \in Regs}
AllOnes(r) == 0..(Width(r) - 1)

(* The value a cell holds in word value x.                               *)
Get(x, c) == MapThenSumSet(LAMBDA b : 2^(b - c.shift), x \cap c.pos)

(* val = AT_READ_REG; val &= ~(MASK << SHIFT);                            *)
(* val |= (v << SHIFT) & (MASK << SHIFT); AT_WRITE_REG(val).  The shift   *)
(* is done in the word's width.                                           *)
Shifted(c, v, w) == {c.shift + i : i \in Bits(v)} \cap 0..(w - 1)
Update(old, c, v, w) == (old \ c.pos) \cup (Shifted(c, v, w) \cap c.pos)

Init ==
  /\ resetOnes \in BOOLEAN
  /\ hw = [r \in Regs |-> IF resetOnes THEN AllOnes(r) ELSE {}]
  /\ last = [c \in {} |-> 0]
  /\ writes = 0

(* One cell of one word is given one of its values.                      *)
SetCell(r, n, v) ==
  /\ writes < MaxWrites
  /\ hw' = [hw EXCEPT ![r] = Update(@, C(r, n), v, Width(r))]
  /\ last' = (<<r, n>> :> v) @@ last
  /\ writes' = writes + 1
  /\ UNCHANGED resetOnes

(* AT_WRITE_REG of a composite: the whole word is replaced, and every    *)
(* cell of it now holds what the composite gives it.                      *)
WriteWord(r, val) ==
  /\ writes < MaxWrites
  /\ hw' = [hw EXCEPT ![r] = val]
  /\ last' = [rn \in {<<r, n>> : n \in DOMAIN Layout[r].cells} |->
               Get(val, C(r, rn[2]))] @@ last
  /\ writes' = writes + 1
  /\ UNCHANGED resetOnes

Next == \/ \E r \in Regs : \E n \in DOMAIN Layout[r].cells : \E v \in C(r, n).vals :
             SetCell(r, n, v)
        \/ \E rv \in WordWrites : rv[1] \in Regs /\ WriteWord(rv[1], rv[2])

Spec == Init /\ [][Next]_vars

-----------------------------------------------------------------------------
(* Every cell reads back the value last written to it, whatever was      *)
(* written to the other cells of its word since: no two cells share a    *)
(* bit, no value the code uses is wider than its field (a MAX_TX_BUF_LEN *)
(* chunk in TPD_BUFLEN, an atl1e_dma_req_block in a burst length, the    *)
(* named speed, clock and mode values), and the masks given in place     *)
(* (MAC_CTRL_SPEED_MASK, MII_CR_SPEED_MASK) are used in place.           *)
FieldsReadBack ==
  \A rn \in DOMAIN last : Get(hw[rn[1]], C(rn[1], rn[2])) = last[rn]

(* While IMR holds IMR_NORMAL_MASK, every transmit or receive event the   *)
(* device raises in ISR (ISR_TX_EVENT, ISR_RX_EVENT, the bits an         *)
(* interrupt handler services) is unmasked, so none is raised silently:  *)
(* the normal mask and the event groups are built from the same ISR_*    *)
(* bits in separate definitions.                                          *)
EventsUnmasked ==
  {"ISR", "IMR"} \subseteq Regs /\ hw["IMR"] = IMR_NORMAL_MASK =>
    hw["ISR"] \cap (ISR_TX_EVENT \cup ISR_RX_EVENT) \subseteq hw["IMR"]
====
